---------------------------- MODULE Spec2Model ----------------------------
(***************************************************************************)
(* The wallet / ledger consistency layer of BYAMN-Workhub                  *)
(* (src/src/lib/data-cache.ts, validators from src/unnamed/part_001).      *)
(*                                                                         *)
(* The document store is a tree of paths; the model keeps one variable per *)
(* top-level path.  get() reads the current value, update()/set() write it *)
(* in one step, and runTransaction(path, fn) applies fn to the current     *)
(* value of one path and commits the result in one step (it aborts when fn *)
(* returns undefined).  Every `await` of a ledger operation that touches   *)
(* the store is a separate step of the calling process, so concurrent      *)
(* calls interleave between their store accesses.  The authorization read  *)
(* of users/{id}.role and .isBlocked is folded into the first step of a    *)
(* call: no ledger operation writes those two fields.                      *)
(* Amounts are whole rupees.                                               *)
(*                                                                         *)
(* The in-memory read cache (class DataCache) is a map of entries and a    *)
(* map of in-flight requests.  No ledger operation reads it.  A ledger     *)
(* operation that succeeds removes entries (invalidateUserCache,           *)
(* dataCache.clear); its last step does so in the model.  In the           *)
(* specifications of the ledger operations alone nothing fills the cache.  *)
(* The cache operations have a specification of their own, SpecCache, and  *)
(* SpecFetch runs the fetch helpers beside ledger operations on one cache. *)
(***************************************************************************)
EXTENDS Integers, Sequences, FiniteSets, TLC

(***************************************************************************)
(* Bounds and input sets                                                   *)
(***************************************************************************)
\* total number of ledger calls started in one behaviour
MaxCalls == 3

\* the concurrently running callers (browser sessions)
Procs == {"p1", "p2"}

Users == {"u1", "u2", "adm"}
\* c1 is the campaign of the calls; c2 is a second campaign of the same creator
CampaignIds == {"c1", "c2"}
RequestIds == {"r1", "r2"}
ReqPaths == {"addMoney", "withdrawals"}

\* an omitted optional acting id (currentUserId?: string)
NoActor == ""

\* cache keys, in the format of the fetch helpers (`wallet:${uid}`, ...)
CacheKeys == {"wallet:u1", "user:u1", "works:u1", "campaigns:all"}

\* cached values
CacheValues == {"v1", "v2"}

\* capacity of the cache: 100 in the code (MAX_CACHE_SIZE, data-cache.ts:15),
\* scaled to the number of keys of the model
MAX_CACHE_SIZE == 3

\* requests created by getOrCreatePendingRequest in one behaviour
MaxFetches == 3

\* steps of one behaviour of the cache
MaxCacheOps == 5

(***************************************************************************)
(* Program constants                                                       *)
(***************************************************************************)
MAX_BALANCE == 10000000
MAX_TX_AMOUNT == 100000
MAX_REWARD == 10000
MAX_WORKERS == 10000
MAX_TITLE == 100
MAX_DESCRIPTION == 1000
MAX_DEDUCT == 10000000
MIN_ADD_MONEY == 10
MAX_ADD_MONEY == 100000
MIN_WITHDRAWAL == 500
MAX_WITHDRAWAL == 50000
CLOCK_DRIFT == 60000
CACHE_DURATION == 300000

Max(a, b) == IF a >= b THEN a ELSE b

(***************************************************************************)
(* Records                                                                 *)
(***************************************************************************)
WalletFields == {"earnedBalance", "addedBalance", "pendingAddMoney", "totalWithdrawn"}

Wallet(e, a, p, w) ==
    [earnedBalance |-> e, addedBalance |-> a, pendingAddMoney |-> p, totalWithdrawn |-> w]

\* the value a wallet transaction works on when wallets/{uid} holds nothing
ZeroWallet == Wallet(0, 0, 0, 0)

\* a Partial<WalletBalance>: the fields in `has` carry the values of `val`
Partial(has, val) == [has |-> has, val |-> val]

NoPartial == Partial({}, ZeroWallet)

NoWork == [exists |-> FALSE, status |-> "none", reward |-> 0, proofUrl |-> "", submittedAt |-> 0]

NoRequest == [exists |-> FALSE, userId |-> "", type |-> "", amount |-> 0, status |-> ""]

(***************************************************************************)
(* Validators                                                              *)
(***************************************************************************)
\* validateWalletData without the check of the upper limits
validateWalletData_NoUpperLimit(w) ==
    ~ (\/ w.earnedBalance < 0
       \/ w.addedBalance < 0
       \/ w.pendingAddMoney < 0
       \/ w.totalWithdrawn < 0)

validateWalletData(w) ==
    /\ ~ (\/ w.earnedBalance < 0
          \/ w.addedBalance < 0
          \/ w.pendingAddMoney < 0
          \/ w.totalWithdrawn < 0)
    /\ ~ (\/ w.earnedBalance > MAX_BALANCE
          \/ w.addedBalance > MAX_BALANCE
          \/ w.pendingAddMoney > MAX_BALANCE
          \/ w.totalWithdrawn > MAX_BALANCE)

\* title and description are kept as their lengths; rewardPerWorker >= 0.5
\* is rewardPerWorker >= 1 on whole rupees
validateCampaignData(c) ==
    /\ c.creatorId # ""
    /\ c.titleLen >= 1 /\ c.titleLen <= MAX_TITLE
    /\ c.descriptionLen >= 1 /\ c.descriptionLen <= MAX_DESCRIPTION
    /\ c.totalWorkers > 0 /\ c.totalWorkers <= MAX_WORKERS
    /\ 2 * c.rewardPerWorker >= 1 /\ c.rewardPerWorker <= MAX_REWARD
    /\ c.totalBudget >= 0
    /\ c.remainingBudget >= 0
    /\ c.remainingBudget <= c.totalBudget

\* createdAt is kept as its distance ahead of Date.now()
validateTransactionData(t) ==
    /\ t.amount # 0
    /\ t.type \in {"add_money", "withdrawal", "earning", "campaign_spend"}
    /\ t.amount > 0 /\ t.amount <= MAX_TX_AMOUNT
    /\ t.status \in {"pending", "approved", "rejected", "paid"}
    /\ t.createdAtAhead <= CLOCK_DRIFT

validateWorkData(w) ==
    w.reward > 0 /\ w.reward <= MAX_REWARD

(***************************************************************************)
(* State                                                                   *)
(***************************************************************************)
VARIABLES
    wallets,        \* wallets/{uid}
    campaigns,      \* campaigns/{campaignId}
    works,          \* works/{uid}/{campaignId}
    adminRequests,  \* adminRequests/{addMoney|withdrawals}/{requestId}
    users,          \* users/{uid}
    transactions,   \* transactions/{uid}: the pushed audit records, in order
    pc,             \* where each caller stands in its call
    call,           \* the arguments of the call in progress
    loc,            \* the call's local variables that outlive an await
    ret,            \* what the finished call returned
    pre,            \* the store as it was when the call in progress started, kept
                    \* while that call is the only one that has run since
    hist,           \* how often each commit point has been passed
    nCalls,         \* calls started so far
    cache,          \* DataCache.cache: the entries in insertion order
    pendingRequests,\* DataCache.pendingRequests: key -> registered request
    fetches,        \* the promises made by the factories, by their number
    now,            \* Date.now()
    res,            \* the last cache step and what it returned
    opened,         \* per key, the request whose factory call was the last one
                    \* for the key, while it is unsettled and no clear
                    \* operation has run since
    nOps,           \* cache steps taken so far
    served          \* per request of a fetch helper, what its store read returned

storeVars == <<wallets, campaigns, works, adminRequests, users, transactions>>
procVars == <<pc, call, loc, ret>>
ledgerVars == <<wallets, campaigns, works, adminRequests, users, transactions,
                pc, call, loc, ret, pre, hist, nCalls>>
cacheVars == <<cache, pendingRequests, fetches, now, res, opened, nOps, served>>
\* the variables of the cache other than its entries
requestVars == <<pendingRequests, fetches, now, res, opened, nOps, served>>
vars == <<wallets, campaigns, works, adminRequests, users, transactions,
          pc, call, loc, ret, pre, hist, nCalls,
          cache, pendingRequests, fetches, now, res, opened, nOps, served>>

Store ==
    [wallets |-> wallets, campaigns |-> campaigns, works |-> works,
     adminRequests |-> adminRequests, users |-> users, transactions |-> transactions]

\* no request / no value (null)
NoFetch == 0
FetchIds == 1 .. MaxFetches
Null == "null"
NoRes == [op |-> "", key |-> "", value |-> Null, fetch |-> NoFetch, created |-> FALSE]

\* constructor(): this.cache = new Map(); this.pendingRequests = new Map()
InitDataCache ==
    /\ cache = << >>
    /\ pendingRequests = [k \in CacheKeys |-> NoFetch]
    /\ fetches = [f \in FetchIds |-> [key |-> "", state |-> "none"]]
    /\ now = 0
    /\ res = NoRes
    /\ opened = [k \in CacheKeys |-> NoFetch]
    /\ nOps = 0
    /\ served = [f \in FetchIds |-> Null]

(***************************************************************************)
(* Call arguments                                                          *)
(***************************************************************************)
NoTx == [type |-> "", amount |-> 0, status |-> "", createdAtAhead |-> 0]

NoCall ==
    [op |-> "none", uid |-> "", actor |-> NoActor, cid |-> "", rid |-> "",
     rtype |-> "", rstatus |-> "", amount |-> 0, fn |-> "", tx |-> NoTx, wu |-> NoPartial]

\* updateWalletBalance(uid, updateFn, currentUserId?)
UpdateWalletCalls ==
    {[NoCall EXCEPT !.op = "updateWalletBalance", !.uid = "u1", !.fn = f] :
        f \in {"abort", "creditEarned", "spendAdded"}}
    \cup {[NoCall EXCEPT !.op = "updateWalletBalance", !.uid = "u1", !.fn = "creditEarned",
                         !.actor = a] : a \in {"u2"}}

\* createTransactionAndAdjustWallet(uid, transaction, walletUpdate, currentUserId?)
CreateTransactionCalls ==
    {[NoCall EXCEPT !.op = "createTransactionAndAdjustWallet", !.uid = "u1",
                    !.tx = [type |-> "add_money", amount |-> 500, status |-> "pending",
                            createdAtAhead |-> 0],
                    !.wu = Partial({"pendingAddMoney"}, Wallet(0, 0, 500, 0))],
     [NoCall EXCEPT !.op = "createTransactionAndAdjustWallet", !.uid = "u1",
                    !.tx = [type |-> "campaign_spend", amount |-> 1000, status |-> "paid",
                            createdAtAhead |-> 0],
                    !.wu = Partial({"addedBalance", "totalWithdrawn"}, Wallet(0, -1000, 0, 500))],
     [NoCall EXCEPT !.op = "createTransactionAndAdjustWallet", !.uid = "u1",
                    !.tx = [type |-> "earning", amount |-> 100001, status |-> "approved",
                            createdAtAhead |-> 0],
                    !.wu = Partial({"earnedBalance"}, Wallet(100001, 0, 0, 0))]}

\* deductCampaignBudget(campaignId, amount, uid, currentUserId?)
DeductCalls ==
    {[NoCall EXCEPT !.op = "deductCampaignBudget", !.cid = "c1", !.uid = "u1", !.amount = a] :
        a \in {0, 200, 500}}
    \cup {[NoCall EXCEPT !.op = "deductCampaignBudget", !.cid = "c1", !.uid = "u2",
                         !.amount = 200]}

\* approveWorkAndCredit(workId, userId, campaignId, reward, currentAdminId?)
ApproveCalls ==
    {[NoCall EXCEPT !.op = "approveWorkAndCredit", !.cid = "c1", !.uid = "u1", !.amount = r,
                    !.actor = "adm"] : r \in {10, 250}}
    \cup {[NoCall EXCEPT !.op = "approveWorkAndCredit", !.cid = "c1", !.uid = "u1",
                         !.amount = 250, !.actor = a] : a \in {NoActor, "u1"}}

\* processMoneyRequest(requestId, type, userId, amount, status, currentAdminId?)
MoneyRequestCalls ==
    {[NoCall EXCEPT !.op = "processMoneyRequest", !.rid = "r1", !.rtype = "add_money",
                    !.uid = "u1", !.amount = 100, !.rstatus = s] :
        s \in {"approved", "rejected"}}
    \cup {[NoCall EXCEPT !.op = "processMoneyRequest", !.rid = "r2", !.rtype = "withdrawal",
                         !.uid = "u1", !.amount = 500, !.rstatus = "approved", !.actor = a] :
        a \in {"adm"}}
    \cup {[NoCall EXCEPT !.op = "processMoneyRequest", !.rid = "r1", !.rtype = "add_money",
                         !.uid = "u1", !.amount = 1000, !.rstatus = "approved"],
          [NoCall EXCEPT !.op = "processMoneyRequest", !.rid = "r1", !.rtype = "withdrawal",
                         !.uid = "u1", !.amount = 500, !.rstatus = "approved"],
          [NoCall EXCEPT !.op = "processMoneyRequest", !.rid = "r1", !.rtype = "add_money",
                         !.uid = "u2", !.amount = 100, !.rstatus = "approved"]}

\* calls of createTransactionAndAdjustWallet and deductCampaignBudget that
\* name an acting user
ActingCreateTransactionCalls ==
    {[NoCall EXCEPT !.op = "createTransactionAndAdjustWallet", !.uid = "u1",
                    !.tx = [type |-> "add_money", amount |-> 500, status |-> "pending",
                            createdAtAhead |-> 0],
                    !.wu = Partial({"pendingAddMoney"}, Wallet(0, 0, 500, 0)),
                    !.actor = a] : a \in {"u2", "adm"}}

ActingDeductCalls ==
    {[NoCall EXCEPT !.op = "deductCampaignBudget", !.cid = "c1", !.uid = "u1",
                    !.amount = 200, !.actor = a] : a \in {"u2", "adm"}}

\* submitWorkForCampaign(campaignId, userId, proofUrl, currentUserId?);
\* fn holds the scheme of proofUrl
SubmitCalls ==
    {[NoCall EXCEPT !.op = "submitWorkForCampaign", !.cid = "c1", !.uid = "u1",
                    !.fn = "https", !.actor = a] : a \in {NoActor, "u2", "adm"}}
    \cup {[NoCall EXCEPT !.op = "submitWorkForCampaign", !.cid = "c1", !.uid = "u1",
                         !.fn = f] : f \in {"http", "ftp"}}
    \cup {[NoCall EXCEPT !.op = "submitWorkForCampaign", !.cid = "c1", !.uid = "u2",
                         !.fn = "https"]}

\* rejectWorkAndRestoreCampaignBudget(workId, userId, campaignId, currentAdminId?);
\* the work id is the campaign id (works/{userId}/{campaignId})
RejectCalls ==
    {[NoCall EXCEPT !.op = "rejectWorkAndRestoreCampaignBudget", !.cid = "c1", !.uid = "u1",
                    !.actor = a] : a \in {NoActor, "u1", "adm"}}
    \cup {[NoCall EXCEPT !.op = "rejectWorkAndRestoreCampaignBudget", !.cid = "c1",
                         !.uid = "u2", !.actor = "adm"]}

\* verifyUserAuthorization(currentUserId, targetUserId, requiredRole?);
\* fn holds requiredRole
VerifyCalls ==
    {[NoCall EXCEPT !.op = "verifyUserAuthorization", !.actor = a, !.uid = t, !.fn = r] :
        a \in Users \cup {""}, t \in Users \cup {""}, r \in {"", "admin"}}

\* applyToCampaign(campaignId, userId, userName, reward, currentUserId?)
ApplyCalls ==
    {[NoCall EXCEPT !.op = "applyToCampaign", !.cid = "c1", !.uid = u, !.amount = 250] :
        u \in Users}
    \cup {[NoCall EXCEPT !.op = "applyToCampaign", !.cid = "c1", !.uid = "u1", !.amount = 250,
                         !.actor = "u2"]}

\* the caller's updateFn: null aborts, otherwise the fields to overwrite
updateFn(fn, cur) ==
    CASE fn = "creditEarned" ->
            [null |-> FALSE,
             part |-> Partial({"earnedBalance"}, Wallet(cur.earnedBalance + 10000, 0, 0, 0))]
      [] fn = "spendAdded" ->
            [null |-> FALSE,
             part |-> Partial({"addedBalance"}, Wallet(0, cur.addedBalance - 1000, 0, 0))]
      [] OTHER -> [null |-> TRUE, part |-> NoPartial]

\* { ...currentBalance, ...updateValues }
Merge(cur, part) ==
    Wallet(IF "earnedBalance" \in part.has THEN part.val.earnedBalance ELSE cur.earnedBalance,
           IF "addedBalance" \in part.has THEN part.val.addedBalance ELSE cur.addedBalance,
           IF "pendingAddMoney" \in part.has THEN part.val.pendingAddMoney
                                             ELSE cur.pendingAddMoney,
           IF "totalWithdrawn" \in part.has THEN part.val.totalWithdrawn
                                            ELSE cur.totalWithdrawn)

\* current + delta for the supplied fields, without the floor at 0
Adjust_NoFloor(cur, wu) ==
    Wallet(IF "earnedBalance" \in wu.has
           THEN cur.earnedBalance + wu.val.earnedBalance ELSE cur.earnedBalance,
           IF "addedBalance" \in wu.has
           THEN cur.addedBalance + wu.val.addedBalance ELSE cur.addedBalance,
           IF "pendingAddMoney" \in wu.has
           THEN cur.pendingAddMoney + wu.val.pendingAddMoney ELSE cur.pendingAddMoney,
           IF "totalWithdrawn" \in wu.has
           THEN cur.totalWithdrawn + wu.val.totalWithdrawn ELSE cur.totalWithdrawn)

\* current + delta for the supplied fields, then Math.max(0, .) on every field
Adjust(cur, wu) ==
    Wallet(Max(0, IF "earnedBalance" \in wu.has
                  THEN cur.earnedBalance + wu.val.earnedBalance ELSE cur.earnedBalance),
           Max(0, IF "addedBalance" \in wu.has
                  THEN cur.addedBalance + wu.val.addedBalance ELSE cur.addedBalance),
           Max(0, IF "pendingAddMoney" \in wu.has
                  THEN cur.pendingAddMoney + wu.val.pendingAddMoney ELSE cur.pendingAddMoney),
           Max(0, IF "totalWithdrawn" \in wu.has
                  THEN cur.totalWithdrawn + wu.val.totalWithdrawn ELSE cur.totalWithdrawn))

(***************************************************************************)
(* Authorization                                                           *)
(***************************************************************************)
\* the admin check that does not look at isBlocked
IsActiveAdmin_IgnoresBlocked(id) ==
    /\ id \in DOMAIN users
    /\ users[id].exists
    /\ users[id].role = "admin"

IsActiveAdmin(id) ==
    /\ id \in DOMAIN users
    /\ users[id].exists
    /\ users[id].role = "admin"
    /\ ~ users[id].isBlocked

verifyUserAuthorization(currentUserId, targetUserId, requiredRole) ==
    IF currentUserId = "" \/ targetUserId = "" THEN FALSE
    ELSE IF requiredRole = "admin" THEN IsActiveAdmin(currentUserId)
    ELSE IF currentUserId = targetUserId THEN TRUE
    ELSE IsActiveAdmin(currentUserId)

\* if (currentUserId && !(await verifyUserAuthorization(...))) throw
Unauthorized(currentUserId, targetUserId, requiredRole) ==
    /\ currentUserId # NoActor
    /\ ~ verifyUserAuthorization(currentUserId, targetUserId, requiredRole)

(***************************************************************************)
(* Initial state                                                           *)
(***************************************************************************)
\* u1's wallet: an ordinary one, one close to the upper limit, a nearly empty one
InitWallets ==
    {Wallet(600, 1000, 100, 0),
     Wallet(9999960, 9999950, 0, 9999600),
     Wallet(0, 100, 0, 0)}

\* campaigns/c1 as CreateCampaign.handleSubmit writes it, before the budget is
\* deducted: totalBudget = remainingBudget = totalWorkers * rewardPerWorker
InitCampaign(done) ==
    [creatorId |-> "u1", titleLen |-> 10, descriptionLen |-> 50,
     totalWorkers |-> 2, completedWorkers |-> done, rewardPerWorker |-> 250,
     totalBudget |-> 500, remainingBudget |-> 500, status |-> "active"]

\* users/{uid} as signUp writes it
InitUser(role) ==
    [exists |-> TRUE, role |-> role, isBlocked |-> FALSE,
     earnedMoney |-> 0, approvedWorks |-> 0, totalWithdrawn |-> 0]

NoLoc == [snap |-> 0, cw |-> 0, em |-> 0, aw |-> 0, tw |-> 0]

NoRet == [kind |-> "none", wallet |-> ZeroWallet]

Ret(kind) == [kind |-> kind, wallet |-> ZeroWallet]

NoStore ==
    [wallets |-> << >>, campaigns |-> << >>, works |-> << >>,
     adminRequests |-> << >>, users |-> << >>, transactions |-> << >>]

WorkKeys == Users \X CampaignIds

RequestKeys == ReqPaths \X RequestIds

NoHist ==
    [reqCommits |-> [k \in RequestKeys |-> 0],
     workCommits |-> [k \in WorkKeys |-> 0],
     workCredits |-> [k \in WorkKeys |-> 0],
     approved |-> [k \in WorkKeys |-> 0],
     applied |-> [k \in WorkKeys |-> 0],
     \* per campaign, the amounts of the deductCampaignBudget calls that returned
     \* true; per wallet, what their wallet transactions took from addedBalance
     deducted |-> [c \in CampaignIds |-> 0],
     debited |-> [u \in Users |-> 0],
     \* per wallet, the rewards added to earnedBalance by approveWorkAndCredit
     credited |-> [u \in Users |-> 0],
     \* per wallet, the initial wallet with the change of every committed
     \* wallet transaction applied to it, in the order of the commits
     expect |-> [u \in Users |-> ZeroWallet]]

Init ==
    /\ \E w \in InitWallets :
         wallets = [u \in Users |-> IF u = "u1" THEN w ELSE ZeroWallet]
    /\ \E applied \in BOOLEAN :
         /\ works = [u \in Users |-> [c \in CampaignIds |->
                        IF applied /\ u = "u1" /\ c = "c1"
                        THEN [exists |-> TRUE, status |-> "pending", reward |-> 250, proofUrl |-> "",
                              submittedAt |-> 0]
                        ELSE NoWork]]
         /\ campaigns = [c \in CampaignIds |->
                            InitCampaign(IF applied /\ c = "c1" THEN 1 ELSE 0)]
    /\ adminRequests =
         [path \in ReqPaths |-> [r \in RequestIds |->
            IF path = "addMoney" /\ r = "r1"
            THEN [exists |-> TRUE, userId |-> "u1", type |-> "add_money",
                  amount |-> 100, status |-> "pending"]
            ELSE IF path = "withdrawals" /\ r = "r2"
            THEN [exists |-> TRUE, userId |-> "u1", type |-> "withdrawal",
                  amount |-> 500, status |-> "pending"]
            ELSE NoRequest]]
    /\ users = [u \in Users |-> InitUser(IF u = "adm" THEN "admin" ELSE "user")]
    /\ transactions = [u \in Users |-> [records |-> << >>, status |-> ""]]
    /\ pc = [p \in Procs |-> "idle"]
    /\ call = [p \in Procs |-> NoCall]
    /\ loc = [p \in Procs |-> NoLoc]
    /\ ret = [p \in Procs |-> NoRet]
    /\ pre = NoStore
    /\ hist = [NoHist EXCEPT !.expect = wallets]
    /\ nCalls = 0
    /\ InitDataCache

(***************************************************************************)
(* DataCache: the entries                                                  *)
(***************************************************************************)
\* Map.has / the place of key k among the entries
Has(c, k) == \E i \in 1 .. Len(c) : c[i].key = k

Find(c, k) == CHOOSE i \in 1 .. Len(c) : c[i].key = k

\* Map.delete
Delete(c, k) == SelectSeq(c, LAMBDA e : e.key # k)

\* Map.set: a key that is present keeps its place in the iteration order
Put(c, e) == IF Has(c, e.key) THEN [c EXCEPT ![Find(c, e.key)] = e] ELSE Append(c, e)

\* { data, timestamp: Date.now(), expiry: Date.now() + CACHE_DURATION }
Entry(k, v, t) == [key |-> k, data |-> v, timestamp |-> t, expiry |-> t + CACHE_DURATION]

\* the scan that takes the first key of the iteration order
oldestKey_FirstInserted(c) == IF c = << >> THEN "" ELSE c[1].key

\* the scan of set(): the first entry, in iteration order, whose timestamp is
\* below that of all entries before it and not above that of any entry
oldestKey(c) ==
    IF c = << >>
    THEN ""
    ELSE c[CHOOSE i \in 1 .. Len(c) :
               /\ \A j \in 1 .. Len(c) : c[i].timestamp <= c[j].timestamp
               /\ \A j \in 1 .. (i - 1) : c[j].timestamp > c[i].timestamp].key

\* the entries after set(key, data) at time t
setEntries(c, k, v, t) ==
    LET kept == IF Len(c) >= MAX_CACHE_SIZE /\ oldestKey(c) # ""
                THEN Delete(c, oldestKey(c))
                ELSE c
    IN  Put(kept, Entry(k, v, t))

\* get(key) that returns the entry whatever its age
getValue_NoExpiry(c, k, t) == IF ~ Has(c, k) THEN Null ELSE c[Find(c, k)].data

\* what get(key) returns at time t, and the entries it leaves
getValue(c, k, t) ==
    IF ~ Has(c, k) THEN Null
    ELSE IF t > c[Find(c, k)].expiry THEN Null
    ELSE c[Find(c, k)].data

getEntries(c, k, t) ==
    IF Has(c, k) /\ t > c[Find(c, k)].expiry THEN Delete(c, k) ELSE c

\* key.includes(keyPattern)
includes(key, keyPattern) ==
    \E i \in 1 .. (Len(key) - Len(keyPattern) + 1) :
        SubSeq(key, i, i + Len(keyPattern) - 1) = keyPattern

\* invalidateCache(keyPattern): clear(key) for every key that includes the pattern
invalidateCache(c, keyPattern) == SelectSeq(c, LAMBDA e : ~ includes(e.key, keyPattern))

\* the entries after invalidateUserCache(uid)
invalidateUserCache(c, uid) ==
    invalidateCache(invalidateCache(invalidateCache(invalidateCache(c,
        "user:" \o uid), "wallet:" \o uid), "transactions:" \o uid), "works:" \o uid)

\* the entries after clearUserCache(uid)
clearUserCache(c, uid) ==
    Delete(Delete(Delete(Delete(c,
        "user:" \o uid), "wallet:" \o uid), "transactions:" \o uid), "works:" \o uid)

\* the entries after invalidateUserCache(userId), clear("campaigns:all") and
\* clear(`campaign:${campaignId}`)
invalidateUserAndCampaign(c, uid, cid) ==
    Delete(Delete(invalidateUserCache(c, uid), "campaigns:all"), "campaign:" \o cid)

(***************************************************************************)
(* Steps shared by all calls                                               *)
(***************************************************************************)
\* no other call is in progress
Alone(p) == \A q \in Procs \ {p} : pc[q] = "idle"

\* a caller invokes an operation with arguments c
BeginCall(p, c) ==
    /\ pc[p] = "idle"
    /\ nCalls < MaxCalls
    /\ nCalls' = nCalls + 1
    /\ call' = [call EXCEPT ![p] = c]
    /\ pre' = IF Alone(p) THEN Store ELSE NoStore

\* the first step of a call that cannot end with success in that step
Begin(p, c) == BeginCall(p, c) /\ UNCHANGED cacheVars

\* the cache entries after a step of the call of p: those given when the step
\* ends the call with one of the given results, the same entries otherwise
EntriesAfter(p, kinds, entries) ==
    cache' = IF pc'[p] = "done" /\ ret'[p].kind \in kinds THEN entries ELSE cache

\* the call settles: it returned a value or threw
Finish(p, r) ==
    /\ pc' = [pc EXCEPT ![p] = "done"]
    /\ ret' = [ret EXCEPT ![p] = r]

Goto(p, label) ==
    /\ pc' = [pc EXCEPT ![p] = label]
    /\ ret' = ret

\* the caller takes the result; it may call again
Return(p) ==
    /\ pc[p] = "done"
    /\ pc' = [pc EXCEPT ![p] = "idle"]
    /\ call' = [call EXCEPT ![p] = NoCall]
    /\ loc' = [loc EXCEPT ![p] = NoLoc]
    /\ ret' = [ret EXCEPT ![p] = NoRet]
    /\ pre' = NoStore
    /\ UNCHANGED <<storeVars, hist, nCalls, cacheVars>>

(***************************************************************************)
(* updateWalletBalance: one wallet transaction                             *)
(***************************************************************************)
updateWalletBalance(p) ==
    \E c \in UpdateWalletCalls :
        LET currentBalance == wallets[c.uid]
            updateValues == updateFn(c.fn, currentBalance)
            updatedBalance == Merge(currentBalance, updateValues.part)
            committed == ~ updateValues.null /\ validateWalletData(updatedBalance)
        IN  /\ BeginCall(p, c)
            /\ IF Unauthorized(c.actor, c.uid, "")
               THEN /\ Finish(p, Ret("throw"))
                    /\ UNCHANGED <<wallets, hist>>
               ELSE IF committed
               THEN /\ wallets' = [wallets EXCEPT ![c.uid] = updatedBalance]
                    /\ hist' = [hist EXCEPT !.expect[c.uid] =
                                    Merge(@, updateFn(c.fn, @).part)]
                    /\ IF validateWalletData(updatedBalance)
                       THEN Finish(p, [kind |-> "value", wallet |-> updatedBalance])
                       ELSE Finish(p, Ret("throw"))
               ELSE /\ Finish(p, Ret("null"))
                    /\ UNCHANGED <<wallets, hist>>
            /\ UNCHANGED <<campaigns, works, adminRequests, users, transactions, loc>>
            /\ UNCHANGED requestVars
            \* dataCache.set(cacheKey, result.snapshot.val()); invalidateUserCache(uid)
            /\ EntriesAfter(p, {"value"},
                   invalidateUserCache(
                       setEntries(cache, "wallet:" \o c.uid, updatedBalance, now), c.uid))

(***************************************************************************)
(* createTransactionAndAdjustWallet: audit record, then wallet transaction *)
(***************************************************************************)
createTransaction_PushWith(p, c) ==
    /\ Begin(p, c)
    /\ IF Unauthorized(c.actor, c.uid, "") \/ ~ validateTransactionData(c.tx)
       THEN /\ Finish(p, Ret("throw"))
            /\ transactions' = transactions
       ELSE /\ transactions' =
                 [transactions EXCEPT ![c.uid].records = Append(@, c.tx)]
            /\ Goto(p, "cta_wallet")
    /\ UNCHANGED <<wallets, campaigns, works, adminRequests, users, loc, hist>>

createTransaction_Push(p) ==
    \E c \in CreateTransactionCalls : createTransaction_PushWith(p, c)

createTransaction_PushActing(p) ==
    \E c \in ActingCreateTransactionCalls : createTransaction_PushWith(p, c)

createTransaction_WalletTx(p) ==
    /\ pc[p] = "cta_wallet"
    /\ pre' = pre /\ UNCHANGED requestVars
    /\ LET c == call[p]
           updatedBalance == Adjust(wallets[c.uid], c.wu)
           committed == validateWalletData(updatedBalance)
       IN  IF committed
           THEN /\ wallets' = [wallets EXCEPT ![c.uid] = updatedBalance]
                /\ hist' = [hist EXCEPT !.expect[c.uid] = Adjust(@, c.wu)]
                /\ IF validateWalletData(updatedBalance)
                   THEN /\ Finish(p, Ret("void"))
                        /\ transactions' = transactions
                   ELSE \* catch: update(ref(`transactions/${uid}`), {status: 'failed'})
                        /\ Finish(p, Ret("throw"))
                        /\ transactions' = [transactions EXCEPT ![c.uid].status = "failed"]
           ELSE /\ Finish(p, Ret("void"))
                /\ UNCHANGED <<wallets, transactions, hist>>
    /\ UNCHANGED <<campaigns, works, adminRequests, users, call, loc, nCalls>>
    /\ cache' = IF validateWalletData(Adjust(wallets[call[p].uid], call[p].wu))
                THEN \* dataCache.set(cacheKey, result.snapshot.val()); invalidateUserCache(uid)
                     invalidateUserCache(
                         setEntries(cache, "wallet:" \o call[p].uid,
                                    Adjust(wallets[call[p].uid], call[p].wu), now),
                         call[p].uid)
                ELSE cache

(***************************************************************************)
(* deductCampaignBudget: campaign transaction, wallet transaction,         *)
(* compensating write                                                      *)
(***************************************************************************)
deductCampaignBudget_GetWith(p, c) ==
    LET campaignData == campaigns[c.cid]
    IN  /\ Begin(p, c)
        /\ IF \/ c.amount <= 0
              \/ Unauthorized(c.actor, c.uid, "")
              \/ c.amount > MAX_DEDUCT
              \/ campaignData.creatorId # c.uid
              \/ ~ validateCampaignData(campaignData)
           THEN Finish(p, Ret("throw"))
           ELSE Goto(p, "dcb_campaign")
        /\ UNCHANGED <<storeVars, loc, hist>>

deductCampaignBudget_Get(p) ==
    \E c \in DeductCalls : deductCampaignBudget_GetWith(p, c)

deductCampaignBudget_GetActing(p) ==
    \E c \in ActingDeductCalls : deductCampaignBudget_GetWith(p, c)

\* the campaign debit as a plain decrement, with no check of the budget
deductCampaignBudget_CampaignTx_Unchecked(p) ==
    /\ pc[p] = "dcb_campaign"
    /\ pre' = pre /\ UNCHANGED cacheVars
    /\ LET c == call[p]
           currentData == campaigns[c.cid]
           updatedCampaign ==
               [currentData EXCEPT !.remainingBudget = currentData.remainingBudget - c.amount]
       IN  /\ campaigns' = [campaigns EXCEPT ![c.cid] = updatedCampaign]
           /\ loc' = [loc EXCEPT ![p].snap = updatedCampaign.remainingBudget]
           /\ Goto(p, "dcb_wallet")
    /\ UNCHANGED <<wallets, works, adminRequests, users, transactions, call, hist, nCalls>>

deductCampaignBudget_CampaignTx(p) ==
    /\ pc[p] = "dcb_campaign"
    /\ pre' = pre /\ UNCHANGED cacheVars
    /\ LET c == call[p]
           currentData == campaigns[c.cid]
           updatedCampaign ==
               [currentData EXCEPT !.remainingBudget = currentData.remainingBudget - c.amount]
           committed ==
               /\ validateCampaignData(currentData)
               /\ ~ (currentData.remainingBudget < c.amount)
               /\ validateCampaignData(updatedCampaign)
       IN  IF committed
           THEN /\ campaigns' = [campaigns EXCEPT ![c.cid] = updatedCampaign]
                /\ loc' = [loc EXCEPT ![p].snap = updatedCampaign.remainingBudget]
                /\ Goto(p, "dcb_wallet")
           ELSE /\ Finish(p, Ret("false"))
                /\ UNCHANGED <<campaigns, loc>>
    /\ UNCHANGED <<wallets, works, adminRequests, users, transactions, call, hist, nCalls>>

\* the wallet debit taken from earnedBalance instead of addedBalance
deductCampaignBudget_WalletTx_Earned(p) ==
    /\ pc[p] = "dcb_wallet"
    /\ pre' = pre /\ UNCHANGED cacheVars
    /\ LET c == call[p]
           currentBalance == wallets[c.uid]
           updatedBalance ==
               [currentBalance EXCEPT !.earnedBalance = currentBalance.earnedBalance - c.amount]
           committed ==
               /\ ~ (currentBalance.earnedBalance < c.amount)
               /\ validateWalletData(updatedBalance)
       IN  IF committed
           THEN /\ wallets' = [wallets EXCEPT ![c.uid] = updatedBalance]
                /\ Finish(p, Ret("true"))
           ELSE /\ wallets' = wallets
                /\ Goto(p, "dcb_rollback")
    /\ UNCHANGED <<campaigns, works, adminRequests, users, transactions, call, loc, hist,
                   nCalls>>

deductCampaignBudget_WalletTx(p) ==
    /\ pc[p] = "dcb_wallet"
    /\ pre' = pre /\ UNCHANGED requestVars
    /\ LET c == call[p]
           currentBalance == wallets[c.uid]
           updatedBalance ==
               [currentBalance EXCEPT !.addedBalance = currentBalance.addedBalance - c.amount]
           committed ==
               /\ ~ (currentBalance.addedBalance < c.amount)
               /\ validateWalletData(updatedBalance)
       IN  IF committed
           THEN /\ wallets' = [wallets EXCEPT ![c.uid] = updatedBalance]
                /\ hist' = [hist EXCEPT !.expect[c.uid].addedBalance = @ - c.amount,
                                        !.deducted[c.cid] = @ + c.amount,
                                        !.debited[c.uid] =
                                            @ + currentBalance.addedBalance
                                              - updatedBalance.addedBalance]
                /\ Finish(p, Ret("true"))
           ELSE /\ UNCHANGED <<wallets, hist>>
                /\ Goto(p, "dcb_rollback")
    /\ UNCHANGED <<campaigns, works, adminRequests, users, transactions, call, loc, nCalls>>
    /\ EntriesAfter(p, {"true"}, Delete(invalidateUserCache(cache, call[p].uid), "campaigns:all"))

\* the compensating write without "+ amount": it writes the debited value back
deductCampaignBudget_Rollback_NoAdd(p) ==
    /\ pc[p] = "dcb_rollback"
    /\ pre' = pre /\ UNCHANGED cacheVars
    /\ campaigns' = [campaigns EXCEPT ![call[p].cid].remainingBudget = loc[p].snap]
    /\ Finish(p, Ret("false"))
    /\ UNCHANGED <<wallets, works, adminRequests, users, transactions, call, loc, hist,
                   nCalls>>

\* update(campaignRef, {remainingBudget: campaignResult.snapshot.val().remainingBudget + amount})
deductCampaignBudget_Rollback(p) ==
    /\ pc[p] = "dcb_rollback"
    /\ pre' = pre /\ UNCHANGED cacheVars
    /\ campaigns' = [campaigns EXCEPT ![call[p].cid].remainingBudget = loc[p].snap + call[p].amount]
    /\ Finish(p, Ret("false"))
    /\ UNCHANGED <<wallets, works, adminRequests, users, transactions, call, loc, hist,
                   nCalls>>

(***************************************************************************)
(* approveWorkAndCredit: work transaction, wallet transaction, profile     *)
(* counters, or the compensating write                                     *)
(***************************************************************************)
\* the first step with the acting id checked as for the user's own
\* operations: the worker itself passes
approveWork_Get_SelfAllowed(p) ==
    \E c \in ApproveCalls :
        LET workData == works[c.uid][c.cid]
        IN  /\ Begin(p, c)
            /\ IF \/ c.amount < 0
                  \/ Unauthorized(c.actor, c.uid, "")
                  \/ c.amount <= 0 \/ c.amount > MAX_REWARD
                  \/ ~ workData.exists
                  \/ workData.status # "pending"
                  \/ ~ validateWorkData(workData)
               THEN Finish(p, Ret("throw"))
               ELSE Goto(p, "awc_work")
            /\ UNCHANGED <<storeVars, loc, hist>>

approveWork_Get(p) ==
    \E c \in ApproveCalls :
        LET workData == works[c.uid][c.cid]
        IN  /\ Begin(p, c)
            /\ IF \/ c.amount < 0
                  \/ Unauthorized(c.actor, c.uid, "admin")
                  \/ c.amount <= 0 \/ c.amount > MAX_REWARD
                  \/ ~ workData.exists
                  \/ workData.status # "pending"
                  \/ ~ validateWorkData(workData)
               THEN Finish(p, Ret("throw"))
               ELSE Goto(p, "awc_work")
            /\ UNCHANGED <<storeVars, loc, hist>>

\* the work transaction without the check that the status is still pending
approveWork_WorkTx_NoPendingCheck(p) ==
    /\ pc[p] = "awc_work"
    /\ pre' = pre /\ UNCHANGED cacheVars
    /\ LET c == call[p]
           currentData == works[c.uid][c.cid]
           committed ==
               /\ currentData.exists
               /\ validateWorkData(currentData)
       IN  IF committed
           THEN /\ works' = [works EXCEPT ![c.uid][c.cid].status = "approved"]
                /\ hist' = [hist EXCEPT !.workCommits[<<c.uid, c.cid>>] = @ + 1]
                /\ Goto(p, "awc_wallet")
           ELSE /\ Finish(p, Ret("false"))
                /\ UNCHANGED <<works, hist>>
    /\ UNCHANGED <<wallets, campaigns, adminRequests, users, transactions, call, loc,
                   nCalls>>

approveWork_WorkTx(p) ==
    /\ pc[p] = "awc_work"
    /\ pre' = pre /\ UNCHANGED cacheVars
    /\ LET c == call[p]
           currentData == works[c.uid][c.cid]
           committed ==
               /\ currentData.exists
               /\ currentData.status = "pending"
               /\ validateWorkData(currentData)
       IN  IF committed
           THEN /\ works' = [works EXCEPT ![c.uid][c.cid].status = "approved"]
                /\ hist' = [hist EXCEPT !.workCommits[<<c.uid, c.cid>>] = @ + 1]
                /\ Goto(p, "awc_wallet")
           ELSE /\ Finish(p, Ret("false"))
                /\ UNCHANGED <<works, hist>>
    /\ UNCHANGED <<wallets, campaigns, adminRequests, users, transactions, call, loc,
                   nCalls>>

\* the credit written as a plain update computed from the profile's
\* earnedMoney, a copy that other wallet transactions do not keep current
approveWork_WalletTx_Blind(p) ==
    /\ pc[p] = "awc_wallet"
    /\ pre' = pre /\ UNCHANGED cacheVars
    /\ LET c == call[p]
           currentBalance == wallets[c.uid]
           updatedBalance ==
               [currentBalance EXCEPT !.earnedBalance = users[c.uid].earnedMoney + c.amount]
       IN  IF validateWalletData(updatedBalance)
           THEN /\ wallets' = [wallets EXCEPT ![c.uid] = updatedBalance]
                /\ hist' = [hist EXCEPT !.workCredits[<<c.uid, c.cid>>] = @ + 1,
                                        !.expect[c.uid].earnedBalance = @ + c.amount]
                /\ Goto(p, "awc_user_get")
           ELSE /\ Goto(p, "awc_rollback")
                /\ UNCHANGED <<wallets, hist>>
    /\ UNCHANGED <<campaigns, works, adminRequests, users, transactions, call, loc,
                   nCalls>>

approveWork_WalletTx(p) ==
    /\ pc[p] = "awc_wallet"
    /\ pre' = pre /\ UNCHANGED cacheVars
    /\ LET c == call[p]
           currentBalance == wallets[c.uid]
           updatedBalance ==
               [currentBalance EXCEPT !.earnedBalance = currentBalance.earnedBalance + c.amount]
       IN  IF validateWalletData(updatedBalance)
           THEN /\ wallets' = [wallets EXCEPT ![c.uid] = updatedBalance]
                /\ hist' = [hist EXCEPT !.workCredits[<<c.uid, c.cid>>] = @ + 1,
                                        !.expect[c.uid].earnedBalance = @ + c.amount,
                                        !.credited[c.uid] =
                                            @ + updatedBalance.earnedBalance
                                              - currentBalance.earnedBalance]
                /\ Goto(p, "awc_user_get")
           ELSE /\ Goto(p, "awc_rollback")
                /\ UNCHANGED <<wallets, hist>>
    /\ UNCHANGED <<campaigns, works, adminRequests, users, transactions, call, loc,
                   nCalls>>

\* const userSnap = await get(userRef)
approveWork_UserGet(p) ==
    /\ pc[p] = "awc_user_get"
    /\ pre' = pre /\ UNCHANGED requestVars
    /\ LET userData == users[call[p].uid]
       IN  IF userData.exists
           THEN /\ loc' = [loc EXCEPT ![p].em = userData.earnedMoney,
                                      ![p].aw = userData.approvedWorks]
                /\ IF userData.earnedMoney + call[p].amount < 0 \/ userData.approvedWorks + 1 < 0
                   THEN Finish(p, Ret("throw"))
                   ELSE Goto(p, "awc_user_update")
                /\ hist' = hist
           ELSE /\ Finish(p, Ret("true"))
                /\ hist' = [hist EXCEPT !.approved[<<call[p].uid, call[p].cid>>] = @ + 1]
                /\ loc' = loc
    /\ UNCHANGED <<storeVars, call, nCalls>>
    /\ EntriesAfter(p, {"true"}, invalidateUserCache(cache, call[p].uid))

\* the profile update without the approvedWorks counter
approveWork_UserUpdate_NoCount(p) ==
    /\ pc[p] = "awc_user_update"
    /\ pre' = pre /\ UNCHANGED cacheVars
    /\ users' = [users EXCEPT ![call[p].uid].earnedMoney = loc[p].em + call[p].amount]
    /\ hist' = [hist EXCEPT !.approved[<<call[p].uid, call[p].cid>>] = @ + 1]
    /\ Finish(p, Ret("true"))
    /\ UNCHANGED <<wallets, campaigns, works, adminRequests, transactions, call, loc,
                   nCalls>>

\* await update(userRef, {earnedMoney: ..., approvedWorks: ...}); return true
approveWork_UserUpdate(p) ==
    /\ pc[p] = "awc_user_update"
    /\ pre' = pre /\ UNCHANGED requestVars
    /\ users' = [users EXCEPT ![call[p].uid].earnedMoney = loc[p].em + call[p].amount,
                              ![call[p].uid].approvedWorks = loc[p].aw + 1]
    /\ hist' = [hist EXCEPT !.approved[<<call[p].uid, call[p].cid>>] = @ + 1]
    /\ Finish(p, Ret("true"))
    /\ UNCHANGED <<wallets, campaigns, works, adminRequests, transactions, call, loc,
                   nCalls>>
    /\ EntriesAfter(p, {"true"}, invalidateUserCache(cache, call[p].uid))

\* the failure branch without the compensating write
approveWork_Rollback_None(p) ==
    /\ pc[p] = "awc_rollback"
    /\ pre' = pre /\ UNCHANGED cacheVars
    /\ Finish(p, Ret("false"))
    /\ UNCHANGED <<storeVars, call, loc, hist, nCalls>>

\* await update(workRef, {status: 'pending'}); return false
approveWork_Rollback(p) ==
    /\ pc[p] = "awc_rollback"
    /\ pre' = pre /\ UNCHANGED cacheVars
    /\ works' = [works EXCEPT ![call[p].uid][call[p].cid].status = "pending"]
    /\ Finish(p, Ret("false"))
    /\ UNCHANGED <<wallets, campaigns, adminRequests, users, transactions, call, loc, hist,
                   nCalls>>

(***************************************************************************)
(* processMoneyRequest: status write, wallet transaction, profile total,   *)
(* or the compensating write                                               *)
(***************************************************************************)
\* type === 'add_money' ? 'adminRequests/addMoney' : 'adminRequests/withdrawals'
requestPath(type) == IF type = "add_money" THEN "addMoney" ELSE "withdrawals"

\* the amount is outside the bounds of its request type
BadRequestAmount(type, amount) ==
    \/ amount <= 0
    \/ type = "add_money" /\ (amount < MIN_ADD_MONEY \/ amount > MAX_ADD_MONEY)
    \/ type = "withdrawal" /\ (amount < MIN_WITHDRAWAL \/ amount > MAX_WITHDRAWAL)

\* the comparison without the amount
RequestMismatch_NoAmount(requestData, c) ==
    \/ requestData.type # c.rtype
    \/ requestData.userId # c.uid

\* requestData.amount !== amount || requestData.type !== type || requestData.userId !== userId
RequestMismatch(requestData, c) ==
    \/ requestData.amount # c.amount
    \/ requestData.type # c.rtype
    \/ requestData.userId # c.uid

processMoneyRequest_Get(p) ==
    \E c \in MoneyRequestCalls :
        LET requestData == adminRequests[requestPath(c.rtype)][c.rid]
        IN  /\ Begin(p, c)
            /\ IF \/ c.amount <= 0
                  \/ Unauthorized(c.actor, c.uid, "admin")
                  \/ BadRequestAmount(c.rtype, c.amount)
                  \/ ~ requestData.exists
                  \/ requestData.status # "pending"
                  \/ RequestMismatch(requestData, c)
               THEN Finish(p, Ret("throw"))
               ELSE Goto(p, "pmr_status")
            /\ UNCHANGED <<storeVars, loc, hist>>

\* the status write followed by the wallet transaction whatever the status
processMoneyRequest_SetStatus_AlwaysWallet(p) ==
    /\ pc[p] = "pmr_status"
    /\ pre' = pre /\ UNCHANGED cacheVars
    /\ LET c == call[p]
       IN  /\ adminRequests' =
                [adminRequests EXCEPT ![requestPath(c.rtype)][c.rid].status = c.rstatus]
           /\ Goto(p, "pmr_wallet")
    /\ UNCHANGED <<wallets, campaigns, works, users, transactions, call, loc, hist,
                   nCalls>>

\* await update(requestRef, {status})
processMoneyRequest_SetStatus(p) ==
    /\ pc[p] = "pmr_status"
    /\ pre' = pre /\ UNCHANGED cacheVars
    /\ LET c == call[p]
       IN  /\ adminRequests' =
                [adminRequests EXCEPT ![requestPath(c.rtype)][c.rid].status = c.rstatus]
           /\ IF c.rstatus = "approved"
              THEN Goto(p, "pmr_wallet")
              ELSE Finish(p, Ret("true"))
    /\ UNCHANGED <<wallets, campaigns, works, users, transactions, call, loc, hist,
                   nCalls>>

\* the wallet transaction without the floor at 0 under pendingAddMoney
processMoneyRequest_WalletTx_NoFloor(p) ==
    /\ pc[p] = "pmr_wallet"
    /\ pre' = pre /\ UNCHANGED cacheVars
    /\ LET c == call[p]
           currentBalance == wallets[c.uid]
           added ==
               [currentBalance EXCEPT
                   !.addedBalance = currentBalance.addedBalance + c.amount,
                   !.pendingAddMoney = currentBalance.pendingAddMoney - c.amount]
           withdrawn ==
               [currentBalance EXCEPT
                   !.earnedBalance = currentBalance.earnedBalance - c.amount,
                   !.totalWithdrawn = currentBalance.totalWithdrawn + c.amount]
           updatedBalance == IF c.rtype = "add_money" THEN added ELSE withdrawn
           committed ==
               /\ validateWalletData(currentBalance)
               /\ c.rtype = "add_money" \/ ~ (currentBalance.earnedBalance < c.amount)
               /\ validateWalletData(updatedBalance)
       IN  IF committed
           THEN /\ wallets' = [wallets EXCEPT ![c.uid] = updatedBalance]
                /\ hist' = [hist EXCEPT
                       !.reqCommits[<<requestPath(c.rtype), c.rid>>] = @ + 1,
                       !.expect[c.uid] =
                           IF c.rtype = "add_money"
                           THEN [@ EXCEPT !.addedBalance = @ + c.amount,
                                          !.pendingAddMoney = Max(0, @ - c.amount)]
                           ELSE [@ EXCEPT !.earnedBalance = @ - c.amount,
                                          !.totalWithdrawn = @ + c.amount]]
                /\ IF c.rtype = "add_money"
                   THEN Finish(p, Ret("true"))
                   ELSE Goto(p, "pmr_user_get")
           ELSE /\ Goto(p, "pmr_rollback")
                /\ UNCHANGED <<wallets, hist>>
    /\ UNCHANGED <<campaigns, works, adminRequests, users, transactions, call, loc,
                   nCalls>>

processMoneyRequest_WalletTx(p) ==
    /\ pc[p] = "pmr_wallet"
    /\ pre' = pre /\ UNCHANGED requestVars
    /\ LET c == call[p]
           currentBalance == wallets[c.uid]
           added ==
               [currentBalance EXCEPT
                   !.addedBalance = currentBalance.addedBalance + c.amount,
                   !.pendingAddMoney = Max(0, currentBalance.pendingAddMoney - c.amount)]
           withdrawn ==
               [currentBalance EXCEPT
                   !.earnedBalance = currentBalance.earnedBalance - c.amount,
                   !.totalWithdrawn = currentBalance.totalWithdrawn + c.amount]
           updatedBalance == IF c.rtype = "add_money" THEN added ELSE withdrawn
           committed ==
               /\ validateWalletData(currentBalance)
               /\ c.rtype = "add_money" \/ ~ (currentBalance.earnedBalance < c.amount)
               /\ validateWalletData(updatedBalance)
       IN  IF committed
           THEN /\ wallets' = [wallets EXCEPT ![c.uid] = updatedBalance]
                /\ hist' = [hist EXCEPT
                       !.reqCommits[<<requestPath(c.rtype), c.rid>>] = @ + 1,
                       !.expect[c.uid] =
                           IF c.rtype = "add_money"
                           THEN [@ EXCEPT !.addedBalance = @ + c.amount,
                                          !.pendingAddMoney = Max(0, @ - c.amount)]
                           ELSE [@ EXCEPT !.earnedBalance = @ - c.amount,
                                          !.totalWithdrawn = @ + c.amount]]
                /\ IF c.rtype = "add_money"
                   THEN Finish(p, Ret("true"))
                   ELSE Goto(p, "pmr_user_get")
           ELSE /\ Goto(p, "pmr_rollback")
                /\ UNCHANGED <<wallets, hist>>
    /\ UNCHANGED <<campaigns, works, adminRequests, users, transactions, call, loc,
                   nCalls>>
    /\ EntriesAfter(p, {"true"}, invalidateUserCache(cache, call[p].uid))

\* const userSnap = await get(ref(database, `users/${userId}`))
processMoneyRequest_UserGet(p) ==
    /\ pc[p] = "pmr_user_get"
    /\ pre' = pre /\ UNCHANGED requestVars
    /\ LET userData == users[call[p].uid]
       IN  IF userData.exists
           THEN /\ loc' = [loc EXCEPT ![p].tw = userData.totalWithdrawn]
                /\ Goto(p, "pmr_user_update")
           ELSE /\ Finish(p, Ret("true"))
                /\ loc' = loc
    /\ UNCHANGED <<storeVars, call, hist, nCalls>>
    /\ EntriesAfter(p, {"true"}, invalidateUserCache(cache, call[p].uid))

\* the profile update without the amount
processMoneyRequest_UserUpdate_NoAmount(p) ==
    /\ pc[p] = "pmr_user_update"
    /\ pre' = pre /\ UNCHANGED cacheVars
    /\ users' = [users EXCEPT ![call[p].uid].totalWithdrawn = loc[p].tw]
    /\ Finish(p, Ret("true"))
    /\ UNCHANGED <<wallets, campaigns, works, adminRequests, transactions, call, loc, hist,
                   nCalls>>

\* await update(userRef, {totalWithdrawn: (userData.totalWithdrawn || 0) + amount}); return true
processMoneyRequest_UserUpdate(p) ==
    /\ pc[p] = "pmr_user_update"
    /\ pre' = pre /\ UNCHANGED requestVars
    /\ users' = [users EXCEPT ![call[p].uid].totalWithdrawn = loc[p].tw + call[p].amount]
    /\ Finish(p, Ret("true"))
    /\ UNCHANGED <<wallets, campaigns, works, adminRequests, transactions, call, loc, hist,
                   nCalls>>
    /\ EntriesAfter(p, {"true"}, invalidateUserCache(cache, call[p].uid))

\* return false without writing the status back
processMoneyRequest_Rollback_NoWrite(p) ==
    /\ pc[p] = "pmr_rollback"
    /\ pre' = pre /\ UNCHANGED cacheVars
    /\ Finish(p, Ret("false"))
    /\ UNCHANGED <<storeVars, call, loc, hist, nCalls>>

\* await update(requestRef, {status: 'pending'}); return false
processMoneyRequest_Rollback(p) ==
    /\ pc[p] = "pmr_rollback"
    /\ pre' = pre /\ UNCHANGED cacheVars
    /\ adminRequests' =
         [adminRequests EXCEPT ![requestPath(call[p].rtype)][call[p].rid].status = "pending"]
    /\ Finish(p, Ret("false"))
    /\ UNCHANGED <<wallets, campaigns, works, users, transactions, call, loc, hist,
                   nCalls>>

(***************************************************************************)
(* applyToCampaign: two reads, the work item, the campaign counter         *)
(***************************************************************************)
\* the first read without the already-applied check
applyToCampaign_GetWork_NoExistsCheck(p) ==
    \E c \in ApplyCalls :
        /\ Begin(p, c)
        /\ IF \/ c.amount < 0
              \/ c.actor # NoActor /\ c.actor # c.uid
              \/ c.amount <= 0 \/ c.amount > MAX_REWARD
           THEN Finish(p, Ret("throw"))
           ELSE Goto(p, "atc_campaign")
        /\ UNCHANGED <<storeVars, loc, hist>>

applyToCampaign_GetWork(p) ==
    \E c \in ApplyCalls :
        /\ Begin(p, c)
        /\ IF \/ c.amount < 0
              \/ c.actor # NoActor /\ c.actor # c.uid
              \/ c.amount <= 0 \/ c.amount > MAX_REWARD
              \/ works[c.uid][c.cid].exists
           THEN Finish(p, Ret("throw"))
           ELSE Goto(p, "atc_campaign")
        /\ UNCHANGED <<storeVars, loc, hist>>

applyToCampaign_GetCampaign(p) ==
    /\ pc[p] = "atc_campaign"
    /\ pre' = pre /\ UNCHANGED cacheVars
    /\ LET c == call[p]
           campaignData == campaigns[c.cid]
           workData == [exists |-> TRUE, status |-> "pending", reward |-> c.amount,
                         proofUrl |-> "", submittedAt |-> now]
       IN  IF \/ campaignData.status # "active"
              \/ campaignData.completedWorkers >= campaignData.totalWorkers
              \/ ~ validateWorkData(workData)
           THEN /\ Finish(p, Ret("throw"))
                /\ loc' = loc
           ELSE /\ loc' = [loc EXCEPT ![p].cw = campaignData.completedWorkers]
                /\ Goto(p, "atc_set")
    /\ UNCHANGED <<storeVars, call, hist, nCalls>>

\* await set(workRef, workData)
applyToCampaign_SetWork(p) ==
    /\ pc[p] = "atc_set"
    /\ pre' = pre /\ UNCHANGED cacheVars
    /\ works' = [works EXCEPT ![call[p].uid][call[p].cid] =
                    [exists |-> TRUE, status |-> "pending", reward |-> call[p].amount,
                     proofUrl |-> "", submittedAt |-> now]]
    /\ Goto(p, "atc_update")
    /\ UNCHANGED <<wallets, campaigns, adminRequests, users, transactions, call, loc, hist,
                   nCalls>>

\* await update(campaignRef, {completedWorkers: campaignData.completedWorkers + 1}); return true
applyToCampaign_UpdateCampaign(p) ==
    /\ pc[p] = "atc_update"
    /\ pre' = pre /\ UNCHANGED requestVars
    /\ campaigns' = [campaigns EXCEPT ![call[p].cid].completedWorkers = loc[p].cw + 1]
    /\ hist' = [hist EXCEPT !.applied[<<call[p].uid, call[p].cid>>] = @ + 1]
    /\ Finish(p, Ret("true"))
    /\ UNCHANGED <<wallets, works, adminRequests, users, transactions, call, loc, nCalls>>
    /\ EntriesAfter(p, {"true"}, invalidateUserAndCampaign(cache, call[p].uid, call[p].cid))

(***************************************************************************)
(* submitWorkForCampaign: one read, one update of the work item            *)
(***************************************************************************)
\* the first read without the check of the status
submitWorkForCampaign_Get_AnyStatus(p) ==
    \E c \in SubmitCalls :
        LET workData == works[c.uid][c.cid]
        IN  /\ Begin(p, c)
            /\ IF \/ c.fn \notin {"http", "https"}
                  \/ c.actor # NoActor /\ c.actor # c.uid
                  \/ ~ workData.exists
                  \/ ~ validateWorkData(workData)
               THEN Finish(p, Ret("throw"))
               ELSE Goto(p, "swc_update")
            /\ UNCHANGED <<storeVars, loc, hist>>

submitWorkForCampaign_Get(p) ==
    \E c \in SubmitCalls :
        LET workData == works[c.uid][c.cid]
        IN  /\ Begin(p, c)
            /\ IF \/ c.fn \notin {"http", "https"}
                  \/ c.actor # NoActor /\ c.actor # c.uid
                  \/ ~ workData.exists
                  \/ workData.status \notin {"pending", "rejected"}
                  \/ ~ validateWorkData(workData)
               THEN Finish(p, Ret("throw"))
               ELSE Goto(p, "swc_update")
            /\ UNCHANGED <<storeVars, loc, hist>>

\* await update(workRef, {proofUrl, status: 'pending', submittedAt}); return true
submitWorkForCampaign_Update(p) ==
    /\ pc[p] = "swc_update"
    /\ pre' = pre /\ UNCHANGED requestVars
    /\ works' = [works EXCEPT ![call[p].uid][call[p].cid].status = "pending",
                              ![call[p].uid][call[p].cid].proofUrl = call[p].fn,
                              ![call[p].uid][call[p].cid].submittedAt = now]
    /\ Finish(p, Ret("true"))
    /\ UNCHANGED <<wallets, campaigns, adminRequests, users, transactions, call, loc, hist,
                   nCalls>>
    /\ EntriesAfter(p, {"true"}, invalidateUserCache(cache, call[p].uid))

(***************************************************************************)
(* rejectWorkAndRestoreCampaignBudget: the work status, then the campaign  *)
(* counter                                                                 *)
(***************************************************************************)
\* the first read without the check that the status is pending
rejectWork_Get_AnyStatus(p) ==
    \E c \in RejectCalls :
        LET workData == works[c.uid][c.cid]
        IN  /\ Begin(p, c)
            /\ IF \/ Unauthorized(c.actor, c.uid, "admin")
                  \/ ~ workData.exists
                  \/ ~ validateWorkData(workData)
               THEN Finish(p, Ret("throw"))
               ELSE Goto(p, "rwr_work")
            /\ UNCHANGED <<storeVars, loc, hist>>

rejectWork_Get(p) ==
    \E c \in RejectCalls :
        LET workData == works[c.uid][c.cid]
        IN  /\ Begin(p, c)
            /\ IF \/ Unauthorized(c.actor, c.uid, "admin")
                  \/ ~ workData.exists
                  \/ workData.status # "pending"
                  \/ ~ validateWorkData(workData)
               THEN Finish(p, Ret("throw"))
               ELSE Goto(p, "rwr_work")
            /\ UNCHANGED <<storeVars, loc, hist>>

\* await update(workRef, {status: 'rejected'})
rejectWork_UpdateWork(p) ==
    /\ pc[p] = "rwr_work"
    /\ pre' = pre /\ UNCHANGED cacheVars
    /\ works' = [works EXCEPT ![call[p].uid][call[p].cid].status = "rejected"]
    /\ Goto(p, "rwr_campaign")
    /\ UNCHANGED <<wallets, campaigns, adminRequests, users, transactions, call, loc, hist,
                   nCalls>>

\* const campaignSnap = await get(campaignRef)
rejectWork_GetCampaign(p) ==
    /\ pc[p] = "rwr_campaign"
    /\ pre' = pre /\ UNCHANGED requestVars
    /\ LET campaignData == campaigns[call[p].cid]
       IN  IF campaignData.completedWorkers > 0
           THEN /\ loc' = [loc EXCEPT ![p].cw = campaignData.completedWorkers]
                /\ Goto(p, "rwr_counter")
           ELSE /\ loc' = loc
                /\ Finish(p, Ret("true"))
    /\ UNCHANGED <<storeVars, call, hist, nCalls>>
    /\ EntriesAfter(p, {"true"}, invalidateUserAndCampaign(cache, call[p].uid, call[p].cid))

\* the counter write that also gives the item's reward back to the budget
rejectWork_UpdateCampaign_RestoresBudget(p) ==
    /\ pc[p] = "rwr_counter"
    /\ pre' = pre /\ UNCHANGED cacheVars
    /\ campaigns' = [campaigns EXCEPT
           ![call[p].cid].completedWorkers = Max(0, loc[p].cw - 1),
           ![call[p].cid].remainingBudget = @ + works[call[p].uid][call[p].cid].reward]
    /\ Finish(p, Ret("true"))
    /\ UNCHANGED <<wallets, works, adminRequests, users, transactions, call, loc, hist,
                   nCalls>>

\* await update(campaignRef, {completedWorkers: Math.max(0, completedWorkers - 1)})
rejectWork_UpdateCampaign(p) ==
    /\ pc[p] = "rwr_counter"
    /\ pre' = pre /\ UNCHANGED requestVars
    /\ campaigns' = [campaigns EXCEPT ![call[p].cid].completedWorkers = Max(0, loc[p].cw - 1)]
    /\ Finish(p, Ret("true"))
    /\ UNCHANGED <<wallets, works, adminRequests, users, transactions, call, loc, hist,
                   nCalls>>
    /\ EntriesAfter(p, {"true"}, invalidateUserAndCampaign(cache, call[p].uid, call[p].cid))

(***************************************************************************)
(* verifyUserAuthorization called by itself                                *)
(***************************************************************************)
verifyUserAuthorization_Call(p) ==
    \E c \in VerifyCalls :
        /\ pc[p] = "idle"
        /\ call' = [call EXCEPT ![p] = c]
        /\ Finish(p, Ret(IF verifyUserAuthorization(c.actor, c.uid, c.fn)
                         THEN "true" ELSE "false"))
        /\ UNCHANGED <<storeVars, loc, pre, hist, nCalls, cacheVars>>

(***************************************************************************)
(* Specifications                                                          *)
(***************************************************************************)
\* the steps of the five wallet-moving operations
LedgerStep(p) ==
    \/ updateWalletBalance(p)
    \/ createTransaction_Push(p)
    \/ createTransaction_WalletTx(p)
    \/ deductCampaignBudget_Get(p)
    \/ deductCampaignBudget_CampaignTx(p)
    \/ deductCampaignBudget_WalletTx(p)
    \/ deductCampaignBudget_Rollback(p)
    \/ approveWork_Get(p)
    \/ approveWork_WorkTx(p)
    \/ approveWork_WalletTx(p)
    \/ approveWork_UserGet(p)
    \/ approveWork_UserUpdate(p)
    \/ approveWork_Rollback(p)
    \/ processMoneyRequest_Get(p)
    \/ processMoneyRequest_SetStatus(p)
    \/ processMoneyRequest_WalletTx(p)
    \/ processMoneyRequest_UserGet(p)
    \/ processMoneyRequest_UserUpdate(p)
    \/ processMoneyRequest_Rollback(p)
    \/ Return(p)

ApplyStep(p) ==
    \/ applyToCampaign_GetWork(p)
    \/ applyToCampaign_GetCampaign(p)
    \/ applyToCampaign_SetWork(p)
    \/ applyToCampaign_UpdateCampaign(p)

\* Spec: calls of the five wallet-moving operations by the two callers,
\* interleaved at every store access
Next == \E p \in Procs : LedgerStep(p)

Spec == Init /\ [][Next]_vars

\* SpecAll: the same with calls of applyToCampaign
NextAll == \E p \in Procs : LedgerStep(p) \/ ApplyStep(p)

SpecAll == Init /\ [][NextAll]_vars

\* users/{uid} of a blocked account, and of an account without a profile
BlockedUser(role) == [InitUser(role) EXCEPT !.isBlocked = TRUE]

NoUser ==
    [exists |-> FALSE, role |-> "", isBlocked |-> FALSE,
     earnedMoney |-> 0, approvedWorks |-> 0, totalWithdrawn |-> 0]

Profiles ==
    {InitUser("user"), InitUser("admin"), BlockedUser("user"), BlockedUser("admin"), NoUser}

\* the initial state of the ledger with the worker's application stored and
\* the worker's wallet and the profiles as given
InitWith(w, profiles) ==
    /\ wallets = [u \in Users |-> IF u = "u1" THEN w ELSE ZeroWallet]
    /\ works = [u \in Users |-> [c \in CampaignIds |->
                   IF u = "u1" /\ c = "c1"
                   THEN [exists |-> TRUE, status |-> "pending", reward |-> 250, proofUrl |-> "",
                              submittedAt |-> 0]
                   ELSE NoWork]]
    /\ campaigns = [c \in CampaignIds |-> InitCampaign(IF c = "c1" THEN 1 ELSE 0)]
    /\ adminRequests =
         [path \in ReqPaths |-> [r \in RequestIds |->
            IF path = "addMoney" /\ r = "r1"
            THEN [exists |-> TRUE, userId |-> "u1", type |-> "add_money",
                  amount |-> 100, status |-> "pending"]
            ELSE IF path = "withdrawals" /\ r = "r2"
            THEN [exists |-> TRUE, userId |-> "u1", type |-> "withdrawal",
                  amount |-> 500, status |-> "pending"]
            ELSE NoRequest]]
    /\ users = profiles
    /\ transactions = [u \in Users |-> [records |-> << >>, status |-> ""]]
    /\ pc = [p \in Procs |-> "idle"]
    /\ call = [p \in Procs |-> NoCall]
    /\ loc = [p \in Procs |-> NoLoc]
    /\ ret = [p \in Procs |-> NoRet]
    /\ pre = NoStore
    /\ hist = [NoHist EXCEPT !.expect = wallets]
    /\ nCalls = 0
    /\ InitDataCache

\* SpecVerify: verifyUserAuthorization on every combination of profiles
InitVerify ==
    \E profiles \in [Users -> Profiles] : InitWith(Wallet(600, 1000, 100, 0), profiles)

NextVerify == \E p \in Procs : verifyUserAuthorization_Call(p)

SpecVerify == InitVerify /\ [][NextVerify]_vars

\* SpecAuth: all ledger operations, with and without an acting user, where
\* the profile of adm is that of an admin, of a blocked admin, or missing,
\* and the worker's wallet is far from or close to the upper limit
WorkStep(p) ==
    \/ submitWorkForCampaign_Get(p)
    \/ submitWorkForCampaign_Update(p)
    \/ rejectWork_Get(p)
    \/ rejectWork_UpdateWork(p)
    \/ rejectWork_GetCampaign(p)
    \/ rejectWork_UpdateCampaign(p)

ActingStep(p) ==
    \/ createTransaction_PushActing(p)
    \/ deductCampaignBudget_GetActing(p)

InitAuth ==
    \E s \in {<<Wallet(600, 1000, 100, 0), InitUser("admin")>>,
               <<Wallet(600, 1000, 100, 0), BlockedUser("admin")>>,
               <<Wallet(600, 1000, 100, 0), NoUser>>,
               <<Wallet(9999960, 9999950, 0, 9999600), InitUser("admin")>>} :
        InitWith(s[1], [u \in Users |-> IF u = "adm" THEN s[2] ELSE InitUser("user")])

NextAuth ==
    \E p \in Procs : LedgerStep(p) \/ ApplyStep(p) \/ WorkStep(p) \/ ActingStep(p)

SpecAuth == InitAuth /\ [][NextAuth]_vars


isFetching(k) == pendingRequests[k] # NoFetch

isExpired(k) == IF ~ Has(cache, k) THEN TRUE ELSE now > cache[Find(cache, k)].expiry

\* one step of the cache
CacheStep(r) ==
    /\ nOps < MaxCacheOps
    /\ nOps' = nOps + 1
    /\ res' = r
    /\ served' = served
    /\ UNCHANGED ledgerVars

(***************************************************************************)
(* DataCache: the operations                                               *)
(***************************************************************************)
DataCache_get(k) ==
    /\ CacheStep([NoRes EXCEPT !.op = "get", !.key = k, !.value = getValue(cache, k, now)])
    /\ cache' = getEntries(cache, k, now)
    /\ UNCHANGED <<pendingRequests, fetches, now, opened>>

DataCache_set(k, v) ==
    /\ CacheStep([NoRes EXCEPT !.op = "set", !.key = k, !.value = v])
    /\ cache' = setEntries(cache, k, v, now)
    /\ UNCHANGED <<pendingRequests, fetches, now, opened>>

DataCache_clear(k) ==
    /\ CacheStep([NoRes EXCEPT !.op = "clear", !.key = k])
    /\ cache' = Delete(cache, k)
    /\ opened' = [opened EXCEPT ![k] = NoFetch]
    /\ UNCHANGED <<pendingRequests, fetches, now>>

\* called by forceLogout
DataCache_clearAll ==
    /\ CacheStep([NoRes EXCEPT !.op = "clearAll"])
    /\ cache' = << >>
    /\ pendingRequests' = [k \in CacheKeys |-> NoFetch]
    /\ opened' = [k \in CacheKeys |-> NoFetch]
    /\ UNCHANGED <<fetches, now>>

DataCache_clearPending(k) ==
    /\ CacheStep([NoRes EXCEPT !.op = "clearPending", !.key = k])
    /\ pendingRequests' = [pendingRequests EXCEPT ![k] = NoFetch]
    /\ opened' = [opened EXCEPT ![k] = NoFetch]
    /\ UNCHANGED <<cache, fetches, now>>

\* the request a factory call makes: the lowest unused number
NewFetch == CHOOSE f \in FetchIds :
                /\ fetches[f].state = "none"
                /\ \A g \in FetchIds : fetches[g].state = "none" => f <= g

\* getOrCreatePendingRequest(key, createPromise); createPromise returns the
\* promise of a store read (the fetch helpers)
DataCache_getOrCreatePendingRequest(k) ==
    IF pendingRequests[k] # NoFetch
    THEN /\ CacheStep([NoRes EXCEPT !.op = "getOrCreatePendingRequest", !.key = k,
                                    !.fetch = pendingRequests[k]])
         /\ UNCHANGED <<cache, pendingRequests, fetches, now, opened>>
    ELSE /\ \E f \in FetchIds : fetches[f].state = "none"
         /\ CacheStep([NoRes EXCEPT !.op = "getOrCreatePendingRequest", !.key = k,
                                    !.fetch = NewFetch, !.created = TRUE])
         /\ fetches' = [fetches EXCEPT ![NewFetch] = [key |-> k, state |-> "pending"]]
         /\ pendingRequests' = [pendingRequests EXCEPT ![k] = NewFetch]
         /\ opened' = [opened EXCEPT ![k] = NewFetch]
         /\ UNCHANGED <<cache, now>>

\* a settlement whose cleanup runs only after success
Settle_NoCleanupOnReject(f, v) ==
    LET k == fetches[f].key
    IN  /\ fetches[f].state = "pending"
        /\ CacheStep([NoRes EXCEPT !.op = "settle", !.key = k, !.value = v, !.fetch = f])
        /\ fetches' = [fetches EXCEPT ![f].state =
                          IF v = "error" THEN "rejected" ELSE "fulfilled"]
        /\ cache' = IF v \in CacheValues THEN setEntries(cache, k, v, now) ELSE cache
        /\ pendingRequests' = IF v = "error" THEN pendingRequests
                              ELSE [pendingRequests EXCEPT ![k] = NoFetch]
        /\ opened' = [opened EXCEPT ![k] = IF @ = f THEN NoFetch ELSE @]
        /\ now' = now

\* the store read of request f settles: with data v, which the fetch helper
\* puts in the cache, with no data (Null), or with an error; then the
\* reaction registered by finally() runs clearPending(key)
Settle(f, v) ==
    LET k == fetches[f].key
    IN  /\ fetches[f].state = "pending"
        /\ CacheStep([NoRes EXCEPT !.op = "settle", !.key = k, !.value = v, !.fetch = f])
        /\ fetches' = [fetches EXCEPT ![f].state =
                          IF v = "error" THEN "rejected" ELSE "fulfilled"]
        /\ cache' = IF v \in CacheValues THEN setEntries(cache, k, v, now) ELSE cache
        /\ pendingRequests' = [pendingRequests EXCEPT ![k] = NoFetch]
        /\ opened' = [opened EXCEPT ![k] = IF @ = f THEN NoFetch ELSE @]
        /\ now' = now

\* time passes: a millisecond, or the lifetime of an entry
TickSteps == {1, CACHE_DURATION}

Tick(d) ==
    /\ CacheStep([NoRes EXCEPT !.op = "tick"])
    /\ now' = now + d
    /\ UNCHANGED <<cache, pendingRequests, fetches, opened>>

\* SpecCache: the operations on the entries and the clock, in any order
NextCache ==
    \/ \E k \in CacheKeys : DataCache_get(k)
    \/ \E k \in CacheKeys, v \in CacheValues : DataCache_set(k, v)
    \/ \E k \in CacheKeys : DataCache_clear(k)
    \/ DataCache_clearAll
    \/ \E d \in TickSteps : Tick(d)

\* SpecRequests: getOrCreatePendingRequest calls, the settlements of the
\* requests and the clear operations, in any order
NextRequests ==
    \/ \E k \in CacheKeys : DataCache_getOrCreatePendingRequest(k)
    \/ \E f \in FetchIds, v \in CacheValues \cup {Null, "error"} : Settle(f, v)
    \/ \E k \in CacheKeys : DataCache_clear(k)
    \/ \E k \in CacheKeys : DataCache_clearPending(k)
    \/ DataCache_clearAll

\* the cache when the run starts: new, or in use for a millisecond:
\* set("wallet:u1", v1) and set("user:u1", v1) at time 0, then
\* set("wallet:u1", v2) at time 1
InitEntries ==
    {[cache |-> << >>, now |-> 0],
     [cache |-> <<Entry("wallet:u1", "v2", 1), Entry("user:u1", "v1", 0)>>, now |-> 1]}

InitCache ==
    /\ wallets = [u \in Users |-> IF u = "u1" THEN Wallet(600, 1000, 100, 0) ELSE ZeroWallet]
    /\ works = [u \in Users |-> [c \in CampaignIds |-> NoWork]]
    /\ campaigns = [c \in CampaignIds |-> InitCampaign(0)]
    /\ adminRequests = [path \in ReqPaths |-> [r \in RequestIds |-> NoRequest]]
    /\ users = [u \in Users |-> InitUser(IF u = "adm" THEN "admin" ELSE "user")]
    /\ transactions = [u \in Users |-> [records |-> << >>, status |-> ""]]
    /\ pc = [p \in Procs |-> "idle"]
    /\ call = [p \in Procs |-> NoCall]
    /\ loc = [p \in Procs |-> NoLoc]
    /\ ret = [p \in Procs |-> NoRet]
    /\ pre = NoStore
    /\ hist = [NoHist EXCEPT !.expect = wallets]
    /\ nCalls = 0
    /\ \E s \in InitEntries : cache = s.cache /\ now = s.now
    /\ pendingRequests = [k \in CacheKeys |-> NoFetch]
    /\ fetches = [f \in FetchIds |-> [key |-> "", state |-> "none"]]
    /\ res = NoRes
    /\ opened = [k \in CacheKeys |-> NoFetch]
    /\ nOps = 0
    /\ served = [f \in FetchIds |-> Null]

SpecCache == InitCache /\ [][NextCache]_vars

SpecRequests == InitCache /\ [][NextRequests]_vars

(***************************************************************************)
(* Properties                                                              *)
(***************************************************************************)
\* p's call has returned and no step of any other call lies between its
\* start and this state; pre is the store the call started from
RanAlone(p) == pc[p] = "done" /\ pre # NoStore

\* no acting id, or the id of an unblocked admin
AdminOrNone(a) ==
    a = NoActor \/ (pre.users[a].exists /\ pre.users[a].role = "admin" /\ ~ pre.users[a].isBlocked)

\* C1: in every state reachable by interleaving updateWalletBalance,
\* createTransactionAndAdjustWallet, deductCampaignBudget, approveWorkAndCredit
\* and processMoneyRequest from wallets within the limits, each of the four
\* fields of every wallet is >= 0 and <= 10,000,000
C1_WalletWithinLimits ==
    \A u \in Users : \A f \in WalletFields :
        wallets[u][f] >= 0 /\ wallets[u][f] <= MAX_BALANCE

\* a credit that would lift addedBalance over the limit has been refused
C1_Witness ==
    \E p \in Procs :
        /\ pc[p] = "pmr_rollback"
        /\ call[p].rtype = "add_money"
        /\ wallets[call[p].uid].addedBalance + call[p].amount > MAX_BALANCE

\* C2: in every reachable state, the states between a committed campaign
\* debit and its compensating write and those of concurrent deductions
\* included, 0 <= remainingBudget <= totalBudget for every campaign
C2_BudgetWithinTotal ==
    \A c \in CampaignIds :
        campaigns[c].remainingBudget >= 0
        /\ campaigns[c].remainingBudget <= campaigns[c].totalBudget

\* two deductions have both debited the campaign and both await their
\* compensating write
C2_Witness ==
    /\ \A p \in Procs : pc[p] = "dcb_rollback" /\ call[p].cid = "c1"
    /\ campaigns["c1"].remainingBudget < campaigns["c1"].totalBudget

\* C3: a deductCampaignBudget call whose campaign debit commits
\* (remainingBudget >= amount) and whose wallet debit does not
\* (addedBalance < amount) returns false, leaves the wallet as it was and
\* leaves remainingBudget at the value it had before the call
C3_DeductCompensated ==
    \A p \in Procs :
        (/\ RanAlone(p)
         /\ call[p].op = "deductCampaignBudget"
         /\ call[p].amount > 0
         /\ call[p].actor = NoActor
         /\ pre.campaigns[call[p].cid].creatorId = call[p].uid
         /\ pre.campaigns[call[p].cid].remainingBudget >= call[p].amount
         /\ pre.wallets[call[p].uid].addedBalance < call[p].amount)
        => /\ ret[p].kind = "false"
           /\ wallets = pre.wallets
           /\ campaigns[call[p].cid].remainingBudget =
                  pre.campaigns[call[p].cid].remainingBudget

\* such a call has returned false
C3_Witness ==
    \E p \in Procs :
        /\ RanAlone(p)
        /\ call[p].op = "deductCampaignBudget"
        /\ ret[p].kind = "false"
        /\ pre.campaigns[call[p].cid].creatorId = call[p].uid
        /\ pre.campaigns[call[p].cid].remainingBudget >= call[p].amount
        /\ pre.wallets[call[p].uid].addedBalance < call[p].amount
        /\ campaigns[call[p].cid].remainingBudget = 500

\* C4: for a campaign created by uid with remainingBudget >= amount and a
\* wallet of uid with addedBalance >= amount, deductCampaignBudget(campaignId,
\* amount, uid) returns true, lowers remainingBudget and addedBalance by
\* exactly amount and changes nothing else of the campaign or the wallet
C4_DeductSucceeds ==
    \A p \in Procs :
        (/\ RanAlone(p)
         /\ call[p].op = "deductCampaignBudget"
         /\ call[p].amount > 0
         /\ call[p].actor = NoActor
         /\ pre.campaigns[call[p].cid].creatorId = call[p].uid
         /\ pre.campaigns[call[p].cid].remainingBudget >= call[p].amount
         /\ pre.wallets[call[p].uid].addedBalance >= call[p].amount)
        => /\ ret[p].kind = "true"
           /\ campaigns[call[p].cid] =
                  [pre.campaigns[call[p].cid] EXCEPT !.remainingBudget = @ - call[p].amount]
           /\ wallets[call[p].uid] =
                  [pre.wallets[call[p].uid] EXCEPT !.addedBalance = @ - call[p].amount]

\* deductCampaignBudget("c1", 500, "u1") on a budget of 500 and an
\* addedBalance of 1000 has returned true
C4_Witness ==
    \E p \in Procs :
        /\ RanAlone(p)
        /\ call[p].op = "deductCampaignBudget"
        /\ call[p].amount = 500
        /\ ret[p].kind = "true"
        /\ pre.wallets["u1"].addedBalance = 1000
        /\ wallets["u1"].addedBalance = 500
        /\ campaigns["c1"].remainingBudget = 0

\* C5: for any interleaving of processMoneyRequest calls on the same request
\* the wallet transaction for that request commits at most once
C5_RequestAppliedAtMostOnce ==
    \A k \in RequestKeys : hist.reqCommits[k] <= 1

\* C6: a processMoneyRequest call whose type, userId or amount differs from
\* that of the stored request with this id throws, and the wallets, the user
\* profiles and the requests are what they were
C6_MismatchStep ==
    \A p \in Procs : \A path \in ReqPaths :
        (/\ pc[p] = "idle"
         /\ call'[p].op = "processMoneyRequest"
         /\ adminRequests[path][call'[p].rid].exists
         /\ \/ adminRequests[path][call'[p].rid].type # call'[p].rtype
            \/ adminRequests[path][call'[p].rid].userId # call'[p].uid
            \/ adminRequests[path][call'[p].rid].amount # call'[p].amount)
        => /\ pc'[p] = "done"
           /\ ret'[p].kind = "throw"
           /\ wallets' = wallets
           /\ users' = users
           /\ adminRequests' = adminRequests

\* C6: every step that starts a processMoneyRequest call with mismatching
\* arguments is such a step
C6_MismatchThrows == [][C6_MismatchStep]_vars

\* a call with an amount within the bounds of add_money that is not the
\* pending request's amount has thrown
C6_Witness ==
    \E p \in Procs :
        /\ RanAlone(p)
        /\ call[p].op = "processMoneyRequest"
        /\ call[p].rtype = "add_money"
        /\ call[p].uid = "u1"
        /\ call[p].amount = 1000
        /\ pre.adminRequests["addMoney"][call[p].rid].status = "pending"
        /\ pre.adminRequests["addMoney"][call[p].rid].amount = 100
        /\ ret[p].kind = "throw"

\* C7: for a stored pending work item with a valid reward and a wallet with
\* earnedBalance + reward <= 10,000,000, approveWorkAndCredit run without
\* interference returns true, sets the work item to approved, raises
\* earnedBalance by exactly reward and nothing else of the wallet, and raises
\* the profile's approvedWorks by 1 and earnedMoney by reward
C7_ApproveSucceeds ==
    \A p \in Procs :
        (/\ RanAlone(p)
         /\ call[p].op = "approveWorkAndCredit"
         /\ AdminOrNone(call[p].actor)
         /\ call[p].amount > 0 /\ call[p].amount <= MAX_REWARD
         /\ pre.works[call[p].uid][call[p].cid].exists
         /\ pre.works[call[p].uid][call[p].cid].status = "pending"
         /\ pre.works[call[p].uid][call[p].cid].reward > 0
         /\ pre.works[call[p].uid][call[p].cid].reward <= MAX_REWARD
         /\ pre.wallets[call[p].uid].earnedBalance + call[p].amount <= MAX_BALANCE)
        => /\ ret[p].kind = "true"
           /\ works[call[p].uid][call[p].cid] =
                  [pre.works[call[p].uid][call[p].cid] EXCEPT !.status = "approved"]
           /\ wallets[call[p].uid] =
                  [pre.wallets[call[p].uid] EXCEPT !.earnedBalance = @ + call[p].amount]
           /\ users[call[p].uid] =
                  [pre.users[call[p].uid] EXCEPT !.approvedWorks = @ + 1,
                                                 !.earnedMoney = @ + call[p].amount]

\* the pending work item with reward 250 has been approved with reward 250
C7_Witness ==
    \E p \in Procs :
        /\ RanAlone(p)
        /\ call[p].op = "approveWorkAndCredit"
        /\ call[p].amount = 250
        /\ ret[p].kind = "true"
        /\ pre.works["u1"]["c1"].status = "pending"
        /\ works["u1"]["c1"].status = "approved"
        /\ wallets["u1"].earnedBalance = pre.wallets["u1"].earnedBalance + 250
        /\ users["u1"].approvedWorks = pre.users["u1"].approvedWorks + 1

\* C8 as stated: over interleaved approveWorkAndCredit calls on one work item
\* the work transaction pending -> approved commits for only one of them
C8_WorkCommitsOnce ==
    \A k \in WorkKeys : hist.workCommits[k] <= 1

\* C8: over interleaved approveWorkAndCredit calls on one work item,
\* earnedBalance is raised for the item at most once, at most one call
\* returns true, and no call commits the work transaction while another call
\* stands between its own commit and its credit or compensating write
C8_CreditedAtMostOnce ==
    \A k \in WorkKeys :
        /\ hist.workCredits[k] <= 1
        /\ hist.approved[k] <= 1
        /\ Cardinality({p \in Procs :
                           /\ pc[p] \in {"awc_wallet", "awc_rollback", "awc_user_get",
                                         "awc_user_update"}
                           /\ <<call[p].uid, call[p].cid>> = k}) <= 1

\* two calls on the same work item have returned: true for one, false for
\* the other
C8_Witness ==
    \E p, q \in Procs :
        /\ p # q
        /\ pc[p] = "done" /\ pc[q] = "done"
        /\ call[p].op = "approveWorkAndCredit" /\ call[q].op = "approveWorkAndCredit"
        /\ call[p].uid = call[q].uid /\ call[p].cid = call[q].cid
        /\ ret[p].kind = "true"
        /\ ret[q].kind = "false"
        /\ hist.workCredits[<<call[p].uid, call[p].cid>>] = 1

\* C9: an approveWorkAndCredit call whose work transaction commits and whose
\* wallet credit does not (earnedBalance + reward > 10,000,000) returns false
\* and leaves the work item pending and the wallet and the profile counters
\* as they were
C9_ApproveCompensated ==
    \A p \in Procs :
        (/\ RanAlone(p)
         /\ call[p].op = "approveWorkAndCredit"
         /\ AdminOrNone(call[p].actor)
         /\ call[p].amount > 0 /\ call[p].amount <= MAX_REWARD
         /\ pre.works[call[p].uid][call[p].cid].exists
         /\ pre.works[call[p].uid][call[p].cid].status = "pending"
         /\ pre.works[call[p].uid][call[p].cid].reward > 0
         /\ pre.works[call[p].uid][call[p].cid].reward <= MAX_REWARD
         /\ pre.wallets[call[p].uid].earnedBalance + call[p].amount > MAX_BALANCE)
        => /\ ret[p].kind = "false"
           /\ works = pre.works
           /\ wallets = pre.wallets
           /\ users = pre.users

\* such a call has returned false
C9_Witness ==
    \E p \in Procs :
        /\ RanAlone(p)
        /\ call[p].op = "approveWorkAndCredit"
        /\ ret[p].kind = "false"
        /\ pre.works[call[p].uid][call[p].cid].status = "pending"
        /\ works[call[p].uid][call[p].cid].status = "pending"
        /\ pre.wallets[call[p].uid].earnedBalance + call[p].amount > MAX_BALANCE
        /\ hist.workCommits[<<call[p].uid, call[p].cid>>] >= 1

\* C10: an applyToCampaign call for a (campaignId, userId) that already has a
\* work item throws and changes neither the work items nor the campaign; the
\* call that created the work item returned true and raised completedWorkers
\* by exactly 1
C10_ApplyOnce ==
    \A p \in Procs :
        (RanAlone(p) /\ call[p].op = "applyToCampaign")
        => IF pre.works[call[p].uid][call[p].cid].exists
           THEN /\ ret[p].kind = "throw"
                /\ works = pre.works
                /\ campaigns = pre.campaigns
           ELSE ret[p].kind = "true"
                => /\ works[call[p].uid][call[p].cid].exists
                   /\ campaigns[call[p].cid] =
                          [pre.campaigns[call[p].cid] EXCEPT !.completedWorkers = @ + 1]

\* u2 has applied to c1 and its second application has thrown
C10_Witness ==
    \E p \in Procs :
        /\ RanAlone(p)
        /\ call[p].op = "applyToCampaign"
        /\ call[p].uid = "u2"
        /\ call[p].actor = NoActor
        /\ hist.applied[<<"u2", call[p].cid>>] = 1
        /\ ret[p].kind = "throw"
        /\ works["u2"][call[p].cid].exists
        /\ campaigns[call[p].cid].completedWorkers = 1

\* the work items stored for campaign c
WorkItems(c) == {u \in Users : works[u][c].exists}

\* C11 as stated: over interleaved applyToCampaign calls by distinct users on
\* one campaign, whenever no call stands between its work item and its
\* counter write, completedWorkers equals the number of work items created
\* and that number does not exceed totalWorkers
C11_CapacityRespected ==
    \A c \in CampaignIds :
        (\A p \in Procs : ~ (pc[p] = "atc_update" /\ call[p].cid = c))
        => /\ campaigns[c].completedWorkers = Cardinality(WorkItems(c))
           /\ Cardinality(WorkItems(c)) <= campaigns[c].totalWorkers

\* the step is a call of getOrCreatePendingRequest(k)
IsGetOrCreate(k) ==
    /\ nOps' = nOps + 1
    /\ res'.op = "getOrCreatePendingRequest"
    /\ res'.key = k

\* the requests made for key k that have not settled
Outstanding(k) == {f \in FetchIds : fetches[f].key = k /\ fetches[f].state = "pending"}

\* C12 as stated: a call of getOrCreatePendingRequest(k) made after a factory
\* call for k, before that request has settled and with no clear, clearPending
\* or clearAll in between, does not call the factory and returns that request
C12_Step ==
    \A k \in CacheKeys :
        (IsGetOrCreate(k) /\ opened[k] # NoFetch)
        => (~ res'.created /\ res'.fetch = opened[k])

C12_OneFactoryCall == [][C12_Step]_vars

\* C13 as stated: in every state reached by getOrCreatePendingRequest calls,
\* settlements, clear, clearPending and clearAll, at most one request made
\* through getOrCreatePendingRequest is outstanding per key
C13_OneOutstandingPerKey ==
    \A k \in CacheKeys : Cardinality(Outstanding(k)) <= 1

\* C14: the settlement of a request, by success or by failure, leaves no
\* request registered for its key, and a getOrCreatePendingRequest call for a
\* key with no registered request calls the factory and registers the result
C14_Step ==
    /\ \A f \in FetchIds :
           (fetches[f].state = "pending" /\ fetches'[f].state # "pending")
           => pendingRequests'[fetches[f].key] = NoFetch
    /\ \A k \in CacheKeys :
           (IsGetOrCreate(k) /\ ~ isFetching(k))
           => /\ res'.created
              /\ res'.fetch \notin Outstanding(k)
              /\ fetches'[res'.fetch] = [key |-> k, state |-> "pending"]
              /\ pendingRequests'[k] = res'.fetch

C14_DeregisteredOnSettle == [][C14_Step]_vars

\* a request for the key has failed and the call after it has made a new one
C14_Witness ==
    /\ res.op = "getOrCreatePendingRequest"
    /\ res.created
    /\ \E g \in FetchIds : fetches[g] = [key |-> res.key, state |-> "rejected"]
    /\ pendingRequests[res.key] = res.fetch

\* C17 as stated: after clear(key), get(key) is null and isFetching(key) is
\* false; after clearAll() there is no entry and no registered request
C17_ClearRemovesBoth ==
    /\ res.op = "clear"
       => /\ getValue(cache, res.key, now) = Null
          /\ ~ isFetching(res.key)
    /\ res.op = "clearAll"
       => /\ cache = << >>
          /\ \A k \in CacheKeys : ~ isFetching(k)

\* the keys that have an entry
Keys(c) == {c[i].key : i \in 1 .. Len(c)}

\* the step is a call of get(k) / of set(k, v)
IsGet(k) == nOps' = nOps + 1 /\ res'.op = "get" /\ res'.key = k

IsSet(k) == nOps' = nOps + 1 /\ res'.op = "set" /\ res'.key = k

\* C15: set(key, v) at time t leaves an entry for key with value v and write
\* time t; while that entry is the last one written for key, get(key) returns
\* v and changes nothing if now <= t + 5 minutes, and returns null and removes
\* the entry if now > t + 5 minutes
C15_Step ==
    \A k \in CacheKeys :
        /\ IsSet(k)
           => /\ Has(cache', k)
              /\ cache'[Find(cache', k)].data = res'.value
              /\ cache'[Find(cache', k)].timestamp = now
        /\ (IsGet(k) /\ Has(cache, k))
           => LET e == cache[Find(cache, k)]
              IN  IF now <= e.timestamp + CACHE_DURATION
                  THEN res'.value = e.data /\ cache' = cache
                  ELSE res'.value = Null /\ cache' = Delete(cache, k)

C15_FreshUntilExpiry == [][C15_Step]_vars

\* get(key) has returned the value of an entry written exactly 5 minutes ago
C15_Witness ==
    /\ res.op = "get"
    /\ Has(cache, res.key)
    /\ now = cache[Find(cache, res.key)].timestamp + CACHE_DURATION
    /\ res.value = cache[Find(cache, res.key)].data
    /\ res.value # Null

\* C16: the cache never holds more entries than its capacity; set(key, v) on
\* a cache at capacity removes an entry whose write timestamp no other entry
\* is below and then writes key, and below capacity it removes nothing
C16_Step ==
    \A k \in CacheKeys :
        IsSet(k)
        => IF Len(cache) >= MAX_CACHE_SIZE
           THEN \E i \in 1 .. Len(cache) :
                    /\ \A j \in 1 .. Len(cache) :
                           cache[i].timestamp <= cache[j].timestamp
                    /\ Keys(cache') = (Keys(cache) \ {cache[i].key}) \cup {k}
                    /\ \A j \in 1 .. Len(cache) :
                           (j # i /\ cache[j].key # k)
                           => cache'[Find(cache', cache[j].key)] = cache[j]
           ELSE /\ Keys(cache') = Keys(cache) \cup {k}
                /\ \A j \in 1 .. Len(cache) :
                       cache[j].key # k => cache'[Find(cache', cache[j].key)] = cache[j]

C16_EvictsOldest == [](Len(cache) <= MAX_CACHE_SIZE) /\ [][C16_Step]_vars

\* after two set calls on the cache that held the entries of wallet:u1
\* (written at 1) and user:u1 (written at 0), the cache is at capacity and
\* the entry of user:u1 is gone
C16_Witness ==
    /\ nOps = 2
    /\ res.op = "set"
    /\ Len(cache) = MAX_CACHE_SIZE
    /\ cache[1] = Entry("wallet:u1", "v2", 1)
    /\ ~ Has(cache, "user:u1")

\* C18: over interleaved ledger operations, every wallet is its initial value
\* with the change of every committed wallet transaction applied, in the
\* order of the commits: no committed change is lost or applied to a stale
\* value
C18_NoLostUpdate ==
    \A u \in Users : wallets[u] = hist.expect[u]

\* a credit of 250 and a withdrawal of 500 on the wallet that started with
\* earnedBalance 600 have both committed while both calls are in progress
C18_Witness ==
    \E p, q \in Procs :
        /\ call[p].op = "approveWorkAndCredit" /\ call[p].uid = "u1"
        /\ call[p].amount = 250
        /\ pc[p] \in {"awc_user_get", "awc_user_update"}
        /\ call[q].op = "processMoneyRequest" /\ call[q].uid = "u1"
        /\ call[q].rtype = "withdrawal"
        /\ pc[q] \in {"pmr_user_get", "pmr_user_update"}
        /\ wallets["u1"] = Wallet(350, 1000, 100, 500)

\* the answer the rules of the authorization check give for acting user a,
\* target t and required role r: false for an empty id; else, with the admin
\* role required, whether a is an unblocked admin; else true for a = t, and
\* otherwise whether a is an unblocked admin
Authorized(a, t, r) ==
    /\ a # "" /\ t # ""
    /\ \/ r # "admin" /\ a = t
       \/ /\ a \in Users
          /\ users[a].exists /\ users[a].role = "admin" /\ ~ users[a].isBlocked

VerifyDone(p) == pc[p] = "done" /\ call[p].op = "verifyUserAuthorization"

AdminOps == {"approveWorkAndCredit", "rejectWorkAndRestoreCampaignBudget",
             "processMoneyRequest"}

\* call c names an acting user that is not authorized: not an unblocked
\* admin and, unless the operation is reserved to admins, not the target
NotAuthorized(c) ==
    /\ c.actor # NoActor
    /\ ~ Authorized(c.actor, c.uid, IF c.op \in AdminOps THEN "admin" ELSE "")

\* C20: a call of a ledger operation that names an acting user who is not
\* authorized throws in its first step, and that step writes nothing to the
\* store: wallets, campaigns, work items, requests, profiles and transaction
\* records are unchanged
C20_Step ==
    \A p \in Procs :
        (pc[p] = "idle" /\ pc'[p] # "idle" /\ NotAuthorized(call'[p]))
        => /\ pc'[p] = "done"
           /\ ret'[p].kind = "throw"
           /\ storeVars' = storeVars

C20_UnauthorizedThrows == [][C20_Step]_vars

\* processMoneyRequest called in the name of a blocked admin, and
\* deductCampaignBudget called in the name of another user, have thrown
C20_Witness ==
    \E p, q \in Procs :
        /\ pc[p] = "done" /\ call[p].op = "processMoneyRequest"
        /\ call[p].actor = "adm" /\ users["adm"].isBlocked
        /\ ret[p].kind = "throw"
        /\ pc[q] = "done" /\ call[q].op = "deductCampaignBudget"
        /\ call[q].actor = "u2"
        /\ ret[q].kind = "throw"
        /\ wallets["u1"] = Wallet(600, 1000, 100, 0)
        /\ adminRequests["withdrawals"]["r2"].status = "pending"

\* call c is refused for lack of funds in the store s: the campaign's
\* remainingBudget or the wallet's addedBalance is below the amount to deduct,
\* or the wallet's earnedBalance is below the amount to withdraw
InsufficientFunds(c, s) ==
    \/ /\ c.op = "deductCampaignBudget"
       /\ c.amount > 0 /\ c.actor = NoActor
       /\ s.campaigns[c.cid].creatorId = c.uid
       /\ \/ s.campaigns[c.cid].remainingBudget < c.amount
          \/ s.wallets[c.uid].addedBalance < c.amount
    \/ /\ c.op = "processMoneyRequest"
       /\ c.rtype = "withdrawal" /\ c.rstatus = "approved"
       /\ AdminOrNone(c.actor)
       /\ ~ BadRequestAmount(c.rtype, c.amount)
       /\ s.adminRequests[requestPath(c.rtype)][c.rid].exists
       /\ s.adminRequests[requestPath(c.rtype)][c.rid].status = "pending"
       /\ ~ RequestMismatch(s.adminRequests[requestPath(c.rtype)][c.rid], c)
       /\ s.wallets[c.uid].earnedBalance < c.amount

\* call c is refused for the state of its subject in the store s: the user has
\* applied already, the campaign is full, or the work item or the request is
\* not pending
NotApplicable(c, s) ==
    \/ /\ c.op = "applyToCampaign"
       /\ c.actor = NoActor
       /\ \/ s.works[c.uid][c.cid].exists
          \/ /\ s.campaigns[c.cid].status = "active"
             /\ s.campaigns[c.cid].completedWorkers >= s.campaigns[c.cid].totalWorkers
    \/ /\ c.op = "approveWorkAndCredit"
       /\ AdminOrNone(c.actor)
       /\ s.works[c.uid][c.cid].exists
       /\ s.works[c.uid][c.cid].status # "pending"
    \/ /\ c.op = "processMoneyRequest"
       /\ AdminOrNone(c.actor)
       /\ ~ BadRequestAmount(c.rtype, c.amount)
       /\ s.adminRequests[requestPath(c.rtype)][c.rid].exists
       /\ s.adminRequests[requestPath(c.rtype)][c.rid].status # "pending"

C22_UnappliedRecordFailed ==
    \A p \in Procs :
        (/\ RanAlone(p)
         /\ call[p].op = "createTransactionAndAdjustWallet"
         /\ ~ Unauthorized(call[p].actor, call[p].uid, "")
         /\ validateTransactionData(call[p].tx)
         /\ ~ validateWalletData(Adjust(pre.wallets[call[p].uid], call[p].wu)))
        => /\ wallets = pre.wallets
           /\ transactions[call[p].uid].records =
                  Append(pre.transactions[call[p].uid].records,
                         [call[p].tx EXCEPT !.status = "failed"])

\* the wallet w with each field for which delta has a value set to
\* max(0, field + delta) and the other fields as they are
WithDelta(w, delta) ==
    [f \in WalletFields |->
        IF f \in delta.has THEN Max(0, w[f] + delta.val[f]) ELSE w[f]]

\* C23: a createTransactionAndAdjustWallet(uid, tx, delta) call that resolves,
\* run without interference, has appended exactly one record, tx, under
\* transactions/{uid}; it has set each wallet field with a delta to
\* max(0, field + delta) and left the other fields unchanged, unless a
\* resulting field exceeds 10,000,000, and then the wallet is unchanged
C23_RecordAndAdjustment ==
    \A p \in Procs :
        (/\ RanAlone(p)
         /\ call[p].op = "createTransactionAndAdjustWallet"
         /\ ret[p].kind = "void")
        => LET uid == call[p].uid
               adjusted == WithDelta(pre.wallets[uid], call[p].wu)
           IN  /\ transactions[uid].records =
                      Append(pre.transactions[uid].records, call[p].tx)
               /\ \A u \in Users \ {uid} : transactions[u] = pre.transactions[u]
               /\ wallets[uid] =
                      IF \E f \in WalletFields : adjusted[f] > MAX_BALANCE
                      THEN pre.wallets[uid]
                      ELSE adjusted
               /\ \A u \in Users \ {uid} : wallets[u] = pre.wallets[u]

\* a campaign_spend of 1000 with deltas addedBalance -1000 and totalWithdrawn
\* +500 on a wallet with addedBalance 100 has left addedBalance 0 and
\* totalWithdrawn 500 and one more record
C23_Witness ==
    \E p \in Procs :
        /\ RanAlone(p)
        /\ call[p].op = "createTransactionAndAdjustWallet"
        /\ ret[p].kind = "void"
        /\ call[p].wu.has = {"addedBalance", "totalWithdrawn"}
        /\ pre.wallets[call[p].uid] = Wallet(0, 100, 0, 0)
        /\ wallets[call[p].uid] = Wallet(0, 0, 0, 500)
        /\ Len(transactions[call[p].uid].records) =
               Len(pre.transactions[call[p].uid].records) + 1

\* the wallet w overwritten with the fields that the partial result part holds
MergedWith(w, part) ==
    [f \in WalletFields |-> IF f \in part.has THEN part.val[f] ELSE w[f]]

\* C24: an updateWalletBalance(uid, updateFn) call, run without interference,
\* commits the wallet merged with updateFn's partial result and returns it; if
\* updateFn returns null or the merged wallet has a field below 0 or above
\* 10,000,000, the wallet is unchanged and the call returns null
C24_CommitOrNull ==
    \A p \in Procs :
        (/\ RanAlone(p)
         /\ call[p].op = "updateWalletBalance"
         /\ call[p].actor \in {NoActor, call[p].uid})
        => LET uid == call[p].uid
               updateValues == updateFn(call[p].fn, pre.wallets[uid])
               merged == MergedWith(pre.wallets[uid], updateValues.part)
           IN  IF \/ updateValues.null
                  \/ \E f \in WalletFields : merged[f] < 0 \/ merged[f] > MAX_BALANCE
               THEN /\ ret[p].kind = "null"
                    /\ Store = pre
               ELSE /\ ret[p] = [kind |-> "value", wallet |-> merged]
                    /\ wallets[uid] = merged
                    /\ Store = [pre EXCEPT !.wallets[uid] = merged]

\* an update that would take addedBalance from 100 to -900 has returned null
\* and left the wallet as it was
C24_Witness ==
    \E p \in Procs :
        /\ RanAlone(p)
        /\ call[p].op = "updateWalletBalance"
        /\ call[p].fn = "spendAdded"
        /\ pre.wallets[call[p].uid].addedBalance = 100
        /\ ret[p].kind = "null"
        /\ wallets = pre.wallets

\* call c approves, with the arguments the stored request holds and the
\* rights to do so, a request of the given type that is pending in the store s
ApprovesPending(c, s, type) ==
    /\ c.op = "processMoneyRequest"
    /\ c.rtype = type /\ c.rstatus = "approved"
    /\ AdminOrNone(c.actor)
    /\ ~ BadRequestAmount(c.rtype, c.amount)
    /\ s.adminRequests[requestPath(type)][c.rid].exists
    /\ s.adminRequests[requestPath(type)][c.rid].status = "pending"
    /\ ~ RequestMismatch(s.adminRequests[requestPath(type)][c.rid], c)

\* what C25 says of the call of p: the request is approved, addedBalance has
\* risen by amount, pendingAddMoney is max(0, pendingAddMoney - amount), the
\* other wallet fields are unchanged and the call has returned true
AddMoneyApplied(p) ==
    LET c == call[p]
    IN  /\ ret[p].kind = "true"
        /\ adminRequests = [pre.adminRequests EXCEPT !["addMoney"][c.rid].status = "approved"]
        /\ wallets[c.uid].addedBalance = pre.wallets[c.uid].addedBalance + c.amount
        /\ wallets[c.uid].pendingAddMoney =
               Max(0, pre.wallets[c.uid].pendingAddMoney - c.amount)
        /\ wallets[c.uid].earnedBalance = pre.wallets[c.uid].earnedBalance
        /\ wallets[c.uid].totalWithdrawn = pre.wallets[c.uid].totalWithdrawn

\* C25 as stated: processMoneyRequest with status approved on a pending
\* add_money request, run without interference, approves the request, credits
\* addedBalance with amount, lowers pendingAddMoney to
\* max(0, pendingAddMoney - amount), leaves earnedBalance and totalWithdrawn
\* unchanged and returns true
C25_AddMoneyAlwaysApplied ==
    \A p \in Procs :
        (RanAlone(p) /\ ApprovesPending(call[p], pre, "add_money"))
        => AddMoneyApplied(p)

\* C25: the same for a wallet whose addedBalance + amount does not exceed
\* 10,000,000
C25_AddMoneyApplied ==
    \A p \in Procs :
        (/\ RanAlone(p)
         /\ ApprovesPending(call[p], pre, "add_money")
         /\ pre.wallets[call[p].uid].addedBalance + call[p].amount <= MAX_BALANCE)
        => AddMoneyApplied(p)

\* the request r1 of 100 has been approved for a wallet with addedBalance 100
\* and pendingAddMoney 0: addedBalance is 200 and pendingAddMoney still 0
C25_Witness ==
    \E p \in Procs :
        /\ RanAlone(p)
        /\ ApprovesPending(call[p], pre, "add_money")
        /\ pre.wallets[call[p].uid] = Wallet(0, 100, 0, 0)
        /\ wallets[call[p].uid] = Wallet(0, 200, 0, 0)
        /\ adminRequests["addMoney"][call[p].rid].status = "approved"
        /\ ret[p].kind = "true"

\* what C26 says of the call of p when it debits: earnedBalance has fallen by
\* amount, the wallet's and the profile's totalWithdrawn have risen by amount,
\* nothing else of them has changed, the request is approved and the call has
\* returned true
WithdrawalApplied(p) ==
    LET c == call[p]
    IN  /\ wallets[c.uid] =
               [pre.wallets[c.uid] EXCEPT !.earnedBalance = @ - c.amount,
                                          !.totalWithdrawn = @ + c.amount]
        /\ users[c.uid] = [pre.users[c.uid] EXCEPT !.totalWithdrawn = @ + c.amount]
        /\ adminRequests =
               [pre.adminRequests EXCEPT !["withdrawals"][c.rid].status = "approved"]
        /\ ret[p].kind = "true"

\* C26 as stated: processMoneyRequest with status approved on a pending
\* withdrawal request, run without interference, debits the wallet when and
\* only when earnedBalance >= amount; it then lowers earnedBalance by exactly
\* amount, raises the wallet's and the profile's totalWithdrawn by exactly
\* amount, leaves the request approved and returns true; and in no state is
\* an earnedBalance negative
C26_DebitWhenCovered ==
    /\ \A u \in Users : wallets[u].earnedBalance >= 0
    /\ \A p \in Procs :
        (RanAlone(p) /\ ApprovesPending(call[p], pre, "withdrawal"))
        => IF pre.wallets[call[p].uid].earnedBalance >= call[p].amount
           THEN WithdrawalApplied(p)
           ELSE wallets = pre.wallets /\ users = pre.users

\* C26: the same, where the debit also requires that the wallet's
\* totalWithdrawn + amount does not exceed 10,000,000
C26_WithdrawalDebit ==
    /\ \A u \in Users : wallets[u].earnedBalance >= 0
    /\ \A p \in Procs :
        (RanAlone(p) /\ ApprovesPending(call[p], pre, "withdrawal"))
        => IF /\ pre.wallets[call[p].uid].earnedBalance >= call[p].amount
              /\ pre.wallets[call[p].uid].totalWithdrawn + call[p].amount <= MAX_BALANCE
           THEN WithdrawalApplied(p)
           ELSE wallets = pre.wallets /\ users = pre.users

\* the withdrawal r2 of 500 has been approved for a wallet with earnedBalance
\* 600: earnedBalance is 100, both totalWithdrawn are 500
C26_Witness ==
    \E p \in Procs :
        /\ RanAlone(p)
        /\ ApprovesPending(call[p], pre, "withdrawal")
        /\ pre.wallets[call[p].uid].earnedBalance = 600
        /\ wallets[call[p].uid].earnedBalance = 100
        /\ wallets[call[p].uid].totalWithdrawn = 500
        /\ users[call[p].uid].totalWithdrawn = 500
        /\ adminRequests["withdrawals"][call[p].rid].status = "approved"
        /\ ret[p].kind = "true"

\* the wallet transaction of the approving call c cannot commit on the wallet
\* of the store s: a withdrawal above earnedBalance, or a resulting
\* totalWithdrawn or addedBalance above the limit
CannotCommit(c, s) ==
    \/ /\ c.rtype = "withdrawal"
       /\ \/ s.wallets[c.uid].earnedBalance < c.amount
          \/ s.wallets[c.uid].totalWithdrawn + c.amount > MAX_BALANCE
    \/ /\ c.rtype = "add_money"
       /\ s.wallets[c.uid].addedBalance + c.amount > MAX_BALANCE

\* a processMoneyRequest call on the request k has written its status and has
\* not yet run its wallet transaction or its compensating write
BetweenStatusAndWallet(k) ==
    \E p \in Procs :
        /\ pc[p] \in {"pmr_wallet", "pmr_rollback"}
        /\ <<requestPath(call[p].rtype), call[p].rid>> = k

\* C27: a processMoneyRequest call with status approved, run without
\* interference, whose wallet transaction cannot commit has returned false
\* and left the request pending and the wallets, the profiles and the rest of
\* the store as they were; and over all interleavings a request that is
\* approved while no call stands between its status write and its wallet
\* transaction has had a wallet transaction committed for it
C27_FailedApprovalRestored ==
    /\ \A p \in Procs :
        (/\ RanAlone(p)
         /\ \E t \in {"add_money", "withdrawal"} : ApprovesPending(call[p], pre, t)
         /\ CannotCommit(call[p], pre))
        => /\ ret[p].kind = "false"
           /\ adminRequests[requestPath(call[p].rtype)][call[p].rid].status = "pending"
           /\ Store = pre
    /\ \A k \in RequestKeys :
        (adminRequests[k[1]][k[2]].status = "approved" /\ ~ BetweenStatusAndWallet(k))
        => hist.reqCommits[k] >= 1

\* the approval of the request r1 of 100 for a wallet with addedBalance
\* 9,999,950 has returned false and the request is pending
C27_Witness ==
    \E p \in Procs :
        /\ RanAlone(p)
        /\ ApprovesPending(call[p], pre, "add_money")
        /\ pre.wallets[call[p].uid].addedBalance + call[p].amount > MAX_BALANCE
        /\ ret[p].kind = "false"
        /\ adminRequests["addMoney"][call[p].rid].status = "pending"
        /\ wallets = pre.wallets

\* C28: processMoneyRequest with status rejected on a pending request, run
\* without interference, returns true and changes nothing in the store but
\* the status of that request, which is rejected: wallets, user profiles and
\* transaction records are as before
C28_RejectOnlyStatus ==
    \A p \in Procs :
        (/\ RanAlone(p)
         /\ call[p].op = "processMoneyRequest"
         /\ call[p].rstatus = "rejected"
         /\ AdminOrNone(call[p].actor)
         /\ ~ BadRequestAmount(call[p].rtype, call[p].amount)
         /\ pre.adminRequests[requestPath(call[p].rtype)][call[p].rid].exists
         /\ pre.adminRequests[requestPath(call[p].rtype)][call[p].rid].status = "pending"
         /\ ~ RequestMismatch(pre.adminRequests[requestPath(call[p].rtype)][call[p].rid],
                              call[p]))
        => /\ ret[p].kind = "true"
           /\ Store = [pre EXCEPT
                  !.adminRequests[requestPath(call[p].rtype)][call[p].rid].status = "rejected"]

\* the pending request r1 has been rejected: the call has returned true and
\* the wallet still has the pendingAddMoney of 100 it had
C28_Witness ==
    \E p \in Procs :
        /\ RanAlone(p)
        /\ call[p].op = "processMoneyRequest"
        /\ call[p].rstatus = "rejected"
        /\ pre.adminRequests["addMoney"][call[p].rid].status = "pending"
        /\ adminRequests["addMoney"][call[p].rid].status = "rejected"
        /\ ret[p].kind = "true"
        /\ wallets[call[p].uid].pendingAddMoney = 100
        /\ wallets = pre.wallets

\* C29: a rejectWorkAndRestoreCampaignBudget call, run without interference,
\* on a work item in status pending returns true, sets its status to rejected
\* and sets the campaign's completedWorkers to max(0, completedWorkers - 1);
\* on a work item that is missing, approved or rejected it throws and changes
\* neither the work items nor the campaign
C29_RejectOnlyPending ==
    \A p \in Procs :
        (/\ RanAlone(p)
         /\ call[p].op = "rejectWorkAndRestoreCampaignBudget"
         /\ AdminOrNone(call[p].actor))
        => LET c == call[p]
           IN  IF pre.works[c.uid][c.cid].exists /\ pre.works[c.uid][c.cid].status = "pending"
               THEN /\ ret[p].kind = "true"
                    /\ works = [pre.works EXCEPT ![c.uid][c.cid].status = "rejected"]
                    /\ campaigns = [pre.campaigns EXCEPT
                                       ![c.cid].completedWorkers = Max(0, @ - 1)]
               ELSE /\ ret[p].kind = "throw"
                    /\ works = pre.works
                    /\ campaigns = pre.campaigns

\* the pending work item of u1 has been rejected and completedWorkers has
\* fallen from 1 to 0
C29_Witness ==
    \E p \in Procs :
        /\ RanAlone(p)
        /\ call[p].op = "rejectWorkAndRestoreCampaignBudget"
        /\ pre.works[call[p].uid][call[p].cid].status = "pending"
        /\ pre.campaigns[call[p].cid].completedWorkers = 1
        /\ works[call[p].uid][call[p].cid].status = "rejected"
        /\ campaigns[call[p].cid].completedWorkers = 0
        /\ ret[p].kind = "true"

\* a step of a rejectWorkAndRestoreCampaignBudget call leaves every wallet,
\* every campaign's remainingBudget and totalBudget and every work item's
\* reward as they are
C30_Step ==
    \A p \in Procs :
        (pc'[p] # pc[p] /\ call'[p].op = "rejectWorkAndRestoreCampaignBudget")
        => /\ wallets' = wallets
           /\ \A c \in CampaignIds :
                /\ campaigns'[c].remainingBudget = campaigns[c].remainingBudget
                /\ campaigns'[c].totalBudget = campaigns[c].totalBudget
           /\ \A u \in Users : \A c \in CampaignIds :
                /\ works'[u][c].exists = works[u][c].exists
                /\ works'[u][c].reward = works[u][c].reward

\* C30: over all interleavings, no step of rejectWorkAndRestoreCampaignBudget
\* changes a campaign's remainingBudget or totalBudget, a wallet, or the
\* reward of a work item
C30_RejectFrame == [][C30_Step]_vars

\* a pending work item with reward 250 has been rejected and its campaign
\* still has the remainingBudget of 500 and the wallet what it had
C30_Witness ==
    \E p \in Procs :
        /\ RanAlone(p)
        /\ call[p].op = "rejectWorkAndRestoreCampaignBudget"
        /\ ret[p].kind = "true"
        /\ works[call[p].uid][call[p].cid].status = "rejected"
        /\ works[call[p].uid][call[p].cid].reward = 250
        /\ pre.campaigns[call[p].cid].completedWorkers = 1
        /\ campaigns[call[p].cid].completedWorkers = 0
        /\ campaigns[call[p].cid].remainingBudget = 500
        /\ wallets = pre.wallets

\* C31: a submitWorkForCampaign call, run without interference, returns true
\* only for an existing work item in status pending or rejected and an http
\* or https proof URL; it has then set the status to pending and stored the
\* proof URL and changed nothing else in the store (not the reward, no wallet,
\* no campaign); for a missing or approved work item it throws and the store
\* is unchanged
C31_SubmitOnlyOpenItem ==
    \A p \in Procs :
        (RanAlone(p) /\ call[p].op = "submitWorkForCampaign")
        => LET c == call[p]
               item == pre.works[c.uid][c.cid]
           IN  /\ ret[p].kind \in {"true", "throw"}
               /\ ret[p].kind = "true"
                  => /\ item.exists /\ item.status \in {"pending", "rejected"}
                     /\ c.fn \in {"http", "https"}
                     /\ Store = [pre EXCEPT !.works[c.uid][c.cid].status = "pending",
                                            !.works[c.uid][c.cid].proofUrl = c.fn,
                                            !.works[c.uid][c.cid].submittedAt = now]
               /\ ret[p].kind = "throw" => Store = pre
               /\ (~ item.exists \/ item.status = "approved") => ret[p].kind = "throw"
               /\ (/\ item.exists /\ item.status \in {"pending", "rejected"}
                   /\ c.fn \in {"http", "https"} /\ c.actor \in {NoActor, c.uid})
                  => ret[p].kind = "true"

\* a rejected work item has been submitted again: it is pending, holds the
\* proof URL of the call and has the reward it had
C31_Witness ==
    \E p \in Procs :
        /\ RanAlone(p)
        /\ call[p].op = "submitWorkForCampaign"
        /\ pre.works[call[p].uid][call[p].cid].status = "rejected"
        /\ ret[p].kind = "true"
        /\ works[call[p].uid][call[p].cid].status = "pending"
        /\ works[call[p].uid][call[p].cid].proofUrl = call[p].fn
        /\ works[call[p].uid][call[p].cid].reward = 250
        /\ wallets = pre.wallets /\ campaigns = pre.campaigns

(***************************************************************************)
(* The fetch helpers and the ledger operations on one cache                *)
(***************************************************************************)
\* the keys of fetchWalletData("u1") and fetchAdminData()
FetchedKeys == {"wallet:u1", "admin:data"}

\* what the store read of the fetch helper for key k returns; fetchAdminData
\* reads five paths with Promise.all, taken here as one read
StoreValue(k) ==
    IF k = "admin:data"
    THEN [users |-> users, campaigns |-> campaigns, works |-> works,
          addMoneyRequests |-> adminRequests["addMoney"],
          withdrawalRequests |-> adminRequests["withdrawals"]]
    ELSE wallets["u1"]

\* the value that key k had in the store s
ValueIn(s, k) ==
    IF k = "admin:data"
    THEN [users |-> s.users, campaigns |-> s.campaigns, works |-> s.works,
          addMoneyRequests |-> s.adminRequests["addMoney"],
          withdrawalRequests |-> s.adminRequests["withdrawals"]]
    ELSE s.wallets["u1"]

\* one step of a fetch helper on the cache
FetchStep ==
    /\ nOps < MaxCacheOps
    /\ nOps' = nOps + 1
    /\ UNCHANGED <<ledgerVars, res, served>>

\* const cached = dataCache.get(cacheKey); if (cached && !isExpired) return
\* cached; return dataCache.getOrCreatePendingRequest(cacheKey, () => get(ref)...)
fetchData(k) ==
    /\ FetchStep
    /\ cache' = getEntries(cache, k, now)
    /\ now' = now
    /\ IF Has(getEntries(cache, k, now), k) \/ pendingRequests[k] # NoFetch
       THEN UNCHANGED <<pendingRequests, fetches, opened>>
       ELSE /\ \E f \in FetchIds : fetches[f].state = "none"
            /\ fetches' = [fetches EXCEPT ![NewFetch] = [key |-> k, state |-> "pending"]]
            /\ pendingRequests' = [pendingRequests EXCEPT ![k] = NewFetch]
            /\ opened' = [opened EXCEPT ![k] = NewFetch]

\* the store serves the read of request f
serveRead(f) ==
    /\ fetches[f].state = "pending"
    /\ nOps < MaxCacheOps
    /\ nOps' = nOps + 1
    /\ served' = [served EXCEPT ![f] = StoreValue(fetches[f].key)]
    /\ fetches' = [fetches EXCEPT ![f].state = "served"]
    /\ UNCHANGED <<ledgerVars, cache, pendingRequests, now, res, opened>>

\* .then(snapshot => { dataCache.set(cacheKey, data); return data }), and the
\* reaction registered by finally(): clearPending(key)
fetchThen(f) ==
    LET k == fetches[f].key
    IN  /\ fetches[f].state = "served"
        /\ FetchStep
        /\ fetches' = [fetches EXCEPT ![f].state = "fulfilled"]
        /\ cache' = setEntries(cache, k, served[f], now)
        /\ pendingRequests' = [pendingRequests EXCEPT ![k] = NoFetch]
        /\ opened' = [opened EXCEPT ![k] = IF @ = f THEN NoFetch ELSE @]
        /\ now' = now

\* the ledger operations that run beside the fetch helpers
FetchLedgerStep(p) ==
    \/ updateWalletBalance(p)
    \/ processMoneyRequest_Get(p)
    \/ processMoneyRequest_SetStatus(p)
    \/ processMoneyRequest_WalletTx(p)
    \/ processMoneyRequest_UserGet(p)
    \/ processMoneyRequest_UserUpdate(p)
    \/ processMoneyRequest_Rollback(p)
    \/ Return(p)

InitFetch ==
    /\ wallets = [u \in Users |-> IF u = "u1" THEN Wallet(600, 1000, 100, 0) ELSE ZeroWallet]
    /\ works = [u \in Users |-> [c \in CampaignIds |-> NoWork]]
    /\ campaigns = [c \in CampaignIds |-> InitCampaign(0)]
    /\ adminRequests =
         [path \in ReqPaths |-> [r \in RequestIds |->
            IF path = "addMoney" /\ r = "r1"
            THEN [exists |-> TRUE, userId |-> "u1", type |-> "add_money",
                  amount |-> 100, status |-> "pending"]
            ELSE IF path = "withdrawals" /\ r = "r2"
            THEN [exists |-> TRUE, userId |-> "u1", type |-> "withdrawal",
                  amount |-> 500, status |-> "pending"]
            ELSE NoRequest]]
    /\ users = [u \in Users |-> InitUser(IF u = "adm" THEN "admin" ELSE "user")]
    /\ transactions = [u \in Users |-> [records |-> << >>, status |-> ""]]
    /\ pc = [p \in Procs |-> "idle"]
    /\ call = [p \in Procs |-> NoCall]
    /\ loc = [p \in Procs |-> NoLoc]
    /\ ret = [p \in Procs |-> NoRet]
    /\ pre = NoStore
    /\ hist = [NoHist EXCEPT !.expect = wallets]
    /\ nCalls = 0
    /\ cache = << >>
    /\ pendingRequests = [k \in FetchedKeys |-> NoFetch]
    /\ fetches = [f \in FetchIds |-> [key |-> "", state |-> "none"]]
    /\ now = 0
    /\ res = NoRes
    /\ opened = [k \in FetchedKeys |-> NoFetch]
    /\ nOps = 0
    /\ served = [f \in FetchIds |-> Null]

NextFetch ==
    \/ \E p \in Procs : FetchLedgerStep(p)
    \/ \E k \in FetchedKeys : fetchData(k)
    \/ \E f \in FetchIds : serveRead(f)
    \/ \E f \in FetchIds : fetchThen(f)

SpecFetch == InitFetch /\ [][NextFetch]_vars

\* the step ends a call of p with success, the call having run without
\* another ledger call beside it
ReturnsSuccess(p) ==
    /\ pc[p] # "done" /\ pc'[p] = "done"
    /\ ret'[p].kind \in {"true", "value", "void"}
    /\ pre' # NoStore

\* when a step ends a ledger call with success, no cache entry that held the
\* stored value of its key when the call started holds a value that differs
\* from the stored one
C32_Step ==
    \A p \in Procs :
        ReturnsSuccess(p)
        => \A i \in 1 .. Len(cache') :
             cache'[i].data = ValueIn(pre', cache'[i].key)
             => cache'[i].data = ValueIn(Store', cache'[i].key)

\* C32 as stated: when a ledger operation returns success, no cache entry
\* populated by a fetch helper still holds a value that the operation changed
\* and that differs from the stored value
C32_NoStaleEntry == [][C32_Step]_vars

\* a wallet read of request f was served with the value the wallet had when
\* the call of p started, the call changed the wallet and returned success,
\* and the request has completed
ServedBeforeCommit(p, f) ==
    /\ RanAlone(p)
    /\ ret[p].kind \in {"true", "value", "void"}
    /\ fetches[f].key = "wallet:u1"
    /\ fetches[f].state = "fulfilled"
    /\ served[f] = pre.wallets["u1"]
    /\ wallets["u1"] # pre.wallets["u1"]

\* C36 as stated: when a wallet read was served before a ledger operation
\* committed a change of that wallet, then after the read and the operation
\* have both completed the cache does not hold the value from before the
\* change under wallet:{uid}
C36_NoOldValueAfterInvalidation ==
    \A p \in Procs : \A f \in FetchIds :
        ServedBeforeCommit(p, f)
        => ~ (Has(cache, "wallet:u1")
              /\ cache[Find(cache, "wallet:u1")].data = served[f])

(***************************************************************************)
(* invalidateUserCache and clearUserCache on a filled cache                *)
(***************************************************************************)
\* the users whose entries are removed; the id u1 is a proper prefix of u10
SweepUsers == {"u1", "u10", "u2"}

\* keys written by fetchUserData, fetchWalletData, fetchWorks, fetchCampaigns
\* and fetchAdminData, in the order of their insertion
SweepKeys ==
    <<"user:u1", "wallet:u1", "user:u10", "wallet:u10", "works:u2",
      "campaigns:all", "admin:data">>

\* the cache that holds the keys of SweepKeys whose positions are in S
FilledCache(S) ==
    LET RECURSIVE fill(_)
        fill(i) == IF i = 0 THEN << >>
                   ELSE IF i \in S THEN Append(fill(i - 1), Entry(SweepKeys[i], "v1", 0))
                   ELSE fill(i - 1)
    IN  fill(Len(SweepKeys))

\* the four keys of a user
UserKeys(uid) == {"user:" \o uid, "wallet:" \o uid, "transactions:" \o uid, "works:" \o uid}

InitSweep ==
    /\ wallets = [u \in Users |-> ZeroWallet]
    /\ works = [u \in Users |-> [c \in CampaignIds |-> NoWork]]
    /\ campaigns = [c \in CampaignIds |-> InitCampaign(0)]
    /\ adminRequests = [path \in ReqPaths |-> [r \in RequestIds |-> NoRequest]]
    /\ users = [u \in Users |-> InitUser(IF u = "adm" THEN "admin" ELSE "user")]
    /\ transactions = [u \in Users |-> [records |-> << >>, status |-> ""]]
    /\ pc = [p \in Procs |-> "idle"]
    /\ call = [p \in Procs |-> NoCall]
    /\ loc = [p \in Procs |-> NoLoc]
    /\ ret = [p \in Procs |-> NoRet]
    /\ pre = NoStore
    /\ hist = [NoHist EXCEPT !.expect = wallets]
    /\ nCalls = 0
    /\ \E S \in SUBSET (1 .. Len(SweepKeys)) : cache = FilledCache(S)
    /\ now = 0
    /\ pendingRequests = [k \in CacheKeys |-> NoFetch]
    /\ fetches = [f \in FetchIds |-> [key |-> "", state |-> "none"]]
    /\ res = NoRes
    /\ opened = [k \in CacheKeys |-> NoFetch]
    /\ nOps = 0
    /\ served = [f \in FetchIds |-> Null]

\* invalidateUserCache(uid)
sweepInvalidateUserCache(uid) ==
    /\ CacheStep([NoRes EXCEPT !.op = "invalidateUserCache", !.key = uid])
    /\ cache' = invalidateUserCache(cache, uid)
    /\ UNCHANGED <<pendingRequests, fetches, now, opened>>

\* clearUserCache(uid)
sweepClearUserCache(uid) ==
    /\ CacheStep([NoRes EXCEPT !.op = "clearUserCache", !.key = uid])
    /\ cache' = clearUserCache(cache, uid)
    /\ UNCHANGED <<pendingRequests, fetches, now, opened>>

NextSweep ==
    \/ \E uid \in SweepUsers : sweepInvalidateUserCache(uid)
    \/ \E uid \in SweepUsers : sweepClearUserCache(uid)

SpecSweep == InitSweep /\ [][NextSweep]_vars

\* the step is a call of invalidateUserCache(uid)
IsInvalidateUserCache(uid) ==
    /\ nOps' = nOps + 1
    /\ res'.op = "invalidateUserCache"
    /\ res'.key = uid

C37_Step ==
    \A uid \in SweepUsers :
        IsInvalidateUserCache(uid)
        => /\ cache' = SelectSeq(cache, LAMBDA e : e.key \notin UserKeys(uid))
           /\ cache' = clearUserCache(cache, uid)

\* C37 as stated: invalidateUserCache(uid) removes exactly the four entries of
\* that user, leaves every other entry (those of a user whose id starts with
\* uid included) unchanged, and removes what clearUserCache(uid) removes
C37_RemovesExactlyUserEntries == [][C37_Step]_vars

(***************************************************************************)
(* fetchTimeBasedLeaderboard                                               *)
(*                                                                         *)
(* data-cache.ts declares the function twice: at 1163 inside a conflict    *)
(* marker (it counts the approved work items of the window) and at 1496    *)
(* (it reads the counters of the user profiles).  A build has one of them; *)
(* a behaviour of SpecLeaderboard runs one of them throughout.  Times are  *)
(* milliseconds; the monthly window (30 days) is left out.                 *)
(***************************************************************************)
DAY == 86400000
WEEK == 604800000

\* Date.now() while the leaderboard is computed
LeaderboardNow == 1000000000

\* .slice(0, 50), scaled to the number of users of the model
LeaderboardSize == 2

Periods == {"daily", "weekly"}

\* Object.entries(usersData): the keys of a snapshot value, in key order
UserOrder == <<"adm", "u1", "u2">>

timeThreshold(period, t) == IF period = "daily" THEN t - DAY ELSE t - WEEK

\* work.status === 'approved' && work.submittedAt > timeThreshold &&
\* work.submittedAt <= now + 60000
InWindow(work, period, t) ==
    /\ work.exists
    /\ work.status = "approved"
    /\ work.submittedAt > timeThreshold(period, t)
    /\ work.submittedAt <= t + CLOCK_DRIFT

userWorkCounts(uid, period, t) ==
    Cardinality({c \in CampaignIds : InWindow(works[uid][c], period, t)})

\* the comparators of the two sort calls: a is placed before b
SortsBefore(a, b, byMoney) ==
    \/ b.approvedWorks - a.approvedWorks < 0
    \/ byMoney /\ b.approvedWorks = a.approvedWorks /\ b.earnedMoney - a.earnedMoney < 0

\* Array.prototype.sort, which is stable
RECURSIVE sort(_, _)
sort(s, byMoney) ==
    IF s = << >> THEN << >>
    ELSE LET e == s[Len(s)]
             front == sort(SubSeq(s, 1, Len(s) - 1), byMoney)
             at == IF \E i \in 1 .. Len(front) : SortsBefore(e, front[i], byMoney)
                   THEN CHOOSE i \in 1 .. Len(front) :
                            /\ SortsBefore(e, front[i], byMoney)
                            /\ \A j \in 1 .. (i - 1) : ~ SortsBefore(e, front[j], byMoney)
                   ELSE Len(front) + 1
         IN  SubSeq(front, 1, at - 1) \o <<e>> \o SubSeq(front, at, Len(front))

\* .slice(0, 50)
slice(s, n) == SubSeq(s, 1, IF Len(s) < n THEN Len(s) ELSE n)

\* .map((user, index) => ({ ...user, rank: index + 1 }))
ranked(s) == [i \in 1 .. Len(s) |-> [uid |-> s[i].uid, approvedWorks |-> s[i].approvedWorks,
                                     earnedMoney |-> s[i].earnedMoney, rank |-> i]]

ExistingUsers == SelectSeq(UserOrder, LAMBDA u : users[u].exists)

\* the list computed at 1185-1240; its entries carry no earnedMoney
\* (undefined, written 0)
leaderboardOfWorks(period, t) ==
    IF \A u \in Users : \A c \in CampaignIds : ~ works[u][c].exists
    THEN << >>
    ELSE LET mapped == [i \in 1 .. Len(ExistingUsers) |->
                           [uid |-> ExistingUsers[i],
                            approvedWorks |-> userWorkCounts(ExistingUsers[i], period, t),
                            earnedMoney |-> 0]]
             filtered == SelectSeq(mapped, LAMBDA user : user.approvedWorks > 0)
         IN  ranked(slice(sort(filtered, FALSE), LeaderboardSize))

\* the list computed at 1513-1568
leaderboardOfUsers(period, t) ==
    LET usersArray == [i \in 1 .. Len(ExistingUsers) |->
                          [uid |-> ExistingUsers[i],
                           approvedWorks |-> users[ExistingUsers[i]].approvedWorks,
                           earnedMoney |-> users[ExistingUsers[i]].earnedMoney]]
    IN  ranked(sort(usersArray, TRUE))

\* one call that runs to its end: the cached list, or the computed list,
\* which is stored under leaderboard:{period}
fetchLeaderboard(name, period, list) ==
    LET cacheKey == "leaderboard:" \o period
        kept == getEntries(cache, cacheKey, now)
        hit == Has(kept, cacheKey)
        value == IF hit THEN kept[Find(kept, cacheKey)].data ELSE list
    IN  /\ CacheStep([NoRes EXCEPT !.op = name, !.key = period, !.value = value])
        /\ cache' = IF hit THEN kept ELSE setEntries(kept, cacheKey, list, now)
        /\ UNCHANGED <<pendingRequests, fetches, now, opened>>

fetchTimeBasedLeaderboard_Works(period) ==
    /\ res.op \in {"", "fetchTimeBasedLeaderboard_Works"}
    /\ fetchLeaderboard("fetchTimeBasedLeaderboard_Works", period,
                        leaderboardOfWorks(period, now))

fetchTimeBasedLeaderboard_Users(timeframe) ==
    /\ res.op \in {"", "fetchTimeBasedLeaderboard_Users"}
    /\ fetchLeaderboard("fetchTimeBasedLeaderboard_Users", timeframe,
                        leaderboardOfUsers(timeframe, now))

\* a work item of the leaderboard's input: none, pending, or approved at one
\* of four times (before both windows, in the weekly window only, in both,
\* later than the tolerated clock drift)
LeaderboardWorks ==
    {NoWork,
     [exists |-> TRUE, status |-> "pending", reward |-> 250, proofUrl |-> "https",
      submittedAt |-> LeaderboardNow - 1000]}
    \cup {[exists |-> TRUE, status |-> "approved", reward |-> 250, proofUrl |-> "https",
           submittedAt |-> t] :
            t \in {0, LeaderboardNow - 100000000, LeaderboardNow - 1000,
                   LeaderboardNow + 120000}}

\* the counters of a profile: works approved so far and money earned by them
LeaderboardProfiles ==
    {[approvedWorks |-> 0, earnedMoney |-> 0], [approvedWorks |-> 1, earnedMoney |-> 250],
     [approvedWorks |-> 1, earnedMoney |-> 500], [approvedWorks |-> 2, earnedMoney |-> 500]}

InitLeaderboard ==
    /\ wallets = [u \in Users |-> ZeroWallet]
    /\ \E items \in [Users -> LeaderboardWorks] :
         works = [u \in Users |-> [c \in CampaignIds |-> IF c = "c1" THEN items[u] ELSE NoWork]]
    /\ campaigns = [c \in CampaignIds |-> InitCampaign(0)]
    /\ adminRequests = [path \in ReqPaths |-> [r \in RequestIds |-> NoRequest]]
    /\ \E prof \in [Users -> LeaderboardProfiles] :
         /\ \A u \in Users : \A c \in CampaignIds :
                works[u][c].status = "approved" => prof[u].approvedWorks >= 1
         /\ users = [u \in Users |->
                        [InitUser(IF u = "adm" THEN "admin" ELSE "user")
                            EXCEPT !.approvedWorks = prof[u].approvedWorks,
                                   !.earnedMoney = prof[u].earnedMoney]]
    /\ transactions = [u \in Users |-> [records |-> << >>, status |-> ""]]
    /\ pc = [p \in Procs |-> "idle"]
    /\ call = [p \in Procs |-> NoCall]
    /\ loc = [p \in Procs |-> NoLoc]
    /\ ret = [p \in Procs |-> NoRet]
    /\ pre = NoStore
    /\ hist = [NoHist EXCEPT !.expect = wallets]
    /\ nCalls = 0
    /\ cache = << >>
    /\ now = LeaderboardNow
    /\ pendingRequests = [k \in CacheKeys |-> NoFetch]
    /\ fetches = [f \in FetchIds |-> [key |-> "", state |-> "none"]]
    /\ res = NoRes
    /\ opened = [k \in CacheKeys |-> NoFetch]
    /\ nOps = 0
    /\ served = [f \in FetchIds |-> Null]

NextLeaderboard ==
    \/ \E period \in Periods : fetchTimeBasedLeaderboard_Works(period)
    \/ \E timeframe \in Periods : fetchTimeBasedLeaderboard_Users(timeframe)

SpecLeaderboard == InitLeaderboard /\ [][NextLeaderboard]_vars

\* the list is ordered by the window count, ties by the earned money
OrderedByWindowCount(list, period) ==
    \A i \in 1 .. Len(list) : \A j \in (i + 1) .. Len(list) :
        LET ci == userWorkCounts(list[i].uid, period, now)
            cj == userWorkCounts(list[j].uid, period, now)
        IN  /\ ci >= cj
            /\ ci = cj => users[list[i].uid].earnedMoney >= users[list[j].uid].earnedMoney

\* a list as the leaderboard is described: at most LeaderboardSize entries,
\* ordered, the entry at position i with rank i
ListAsDescribed(list, period) ==
    /\ Len(list) <= LeaderboardSize
    /\ OrderedByWindowCount(list, period)
    /\ \A i \in 1 .. Len(list) : list[i].rank = i

\* the same for each declaration alone
WorksListAsDescribed ==
    res.op = "fetchTimeBasedLeaderboard_Works" => ListAsDescribed(res.value, res.key)

UsersListAsDescribed ==
    res.op = "fetchTimeBasedLeaderboard_Users" => ListAsDescribed(res.value, res.key)

\* C33 as stated: the list returned by fetchTimeBasedLeaderboard(period) has
\* at most 50 entries (LeaderboardSize here), is ordered by the users' counts
\* of approved work items in the window of the period, non-increasing, ties by
\* earned money, non-increasing, and its entry at position i has rank i
C33_LeaderboardOrdered ==
    res.op \in {"fetchTimeBasedLeaderboard_Works", "fetchTimeBasedLeaderboard_Users"}
    => ListAsDescribed(res.value, res.key)

\* the wallet was credited for work item k and the item is approved
ApprovedAndCredited(k) ==
    works[k[1]][k[2]].status = "approved" /\ hist.workCredits[k] >= 1

CreditedAtMostOnce == \A k \in WorkKeys : hist.workCredits[k] <= 1

StaysApproved ==
    \A k \in WorkKeys : ApprovedAndCredited(k) => works'[k[1]][k[2]].status = "approved"

\* C34 as stated: whatever the interleaving of approveWorkAndCredit,
\* rejectWorkAndRestoreCampaignBudget and submitWorkForCampaign on one work
\* item, the wallet is credited for the item at most once, and an item that
\* is approved and credited never returns to pending or rejected
C34_CreditOnceAndFinal == [] CreditedAtMostOnce /\ [][StaysApproved]_vars

(***************************************************************************)
(* deductCampaignBudget calls on one campaign                              *)
(***************************************************************************)
\* the creator's wallet covers one deduction of 200 but not two, or covers
\* every deduction
InitDeduct ==
    \E w \in {Wallet(0, 300, 0, 0), Wallet(600, 1000, 100, 0)} :
        InitWith(w, [u \in Users |-> InitUser(IF u = "adm" THEN "admin" ELSE "user")])

DeductStep(p) ==
    \/ deductCampaignBudget_Get(p)
    \/ deductCampaignBudget_CampaignTx(p)
    \/ deductCampaignBudget_WalletTx(p)
    \/ deductCampaignBudget_Rollback(p)
    \/ Return(p)

NextDeduct == \E p \in Procs : DeductStep(p)

SpecDeduct == InitDeduct /\ [][NextDeduct]_vars

\* every call has returned
AllReturned == \A p \in Procs : pc[p] \in {"idle", "done"}

\* C35 as stated: once all deductCampaignBudget calls on a campaign have
\* returned, the campaign's initial remainingBudget minus its final one is the
\* sum of the amounts of the calls that returned true, which is the total
\* taken from the creator's addedBalance
C35_DeductionsAddUp ==
    AllReturned
    => LET c == "c1"
       IN  /\ InitCampaign(1).remainingBudget - campaigns[c].remainingBudget = hist.deducted[c]
           /\ hist.deducted[c] = hist.debited[campaigns[c].creatorId]

(***************************************************************************)
(* The work-item operations called one after the other                     *)
(***************************************************************************)
InitSeq ==
    \E w \in {Wallet(600, 1000, 100, 0), Wallet(9999960, 9999950, 0, 9999600)} :
        InitWith(w, [u \in Users |-> InitUser(IF u = "adm" THEN "admin" ELSE "user")])

\* one caller: its calls run one after the other
SeqCaller == "p1"

ApproveStep(p) ==
    \/ approveWork_Get(p)
    \/ approveWork_WorkTx(p)
    \/ approveWork_WalletTx(p)
    \/ approveWork_UserGet(p)
    \/ approveWork_UserUpdate(p)
    \/ approveWork_Rollback(p)
    \/ Return(p)

NextSeq == ApplyStep(SeqCaller) \/ WorkStep(SeqCaller) \/ ApproveStep(SeqCaller)

SpecSeq == InitSeq /\ [][NextSeq]_vars

\* the work items of campaign c that hold a place: pending or approved
PlacesTaken(c) ==
    Cardinality({u \in Users : works[u][c].exists
                               /\ works[u][c].status \in {"pending", "approved"}})

\* C38 as stated: between the calls of a sequential run of applyToCampaign,
\* submitWorkForCampaign, rejectWorkAndRestoreCampaignBudget and
\* approveWorkAndCredit, a campaign's completedWorkers is the number of its
\* work items that are pending or approved, and that number is at most
\* totalWorkers
C38_CompletedWorkersCount ==
    AllReturned
    => \A c \in CampaignIds :
         /\ campaigns[c].completedWorkers = PlacesTaken(c)
         /\ PlacesTaken(c) <= campaigns[c].totalWorkers

(***************************************************************************)
(* approveWorkAndCredit on two work items of one worker                    *)
(***************************************************************************)
\* the approval of the worker's item of the second campaign
SecondItemCalls ==
    {[NoCall EXCEPT !.op = "approveWorkAndCredit", !.cid = "c2", !.uid = "u1", !.amount = r,
                    !.actor = "adm"] : r \in {100, 250}}

approveWork_GetSecond(p) ==
    \E c \in SecondItemCalls :
        LET workData == works[c.uid][c.cid]
        IN  /\ Begin(p, c)
            /\ IF \/ c.amount < 0
                  \/ Unauthorized(c.actor, c.uid, "admin")
                  \/ c.amount <= 0 \/ c.amount > MAX_REWARD
                  \/ ~ workData.exists
                  \/ workData.status # "pending"
                  \/ ~ validateWorkData(workData)
               THEN Finish(p, Ret("throw"))
               ELSE Goto(p, "awc_work")
            /\ UNCHANGED <<storeVars, loc, hist>>

\* the worker has applied to both campaigns, for a reward of 250 and of 100
InitApprove ==
    /\ \E w \in {Wallet(600, 1000, 100, 0), Wallet(9999960, 9999950, 0, 9999600)} :
         wallets = [u \in Users |-> IF u = "u1" THEN w ELSE ZeroWallet]
    /\ works = [u \in Users |-> [c \in CampaignIds |->
                   IF u = "u1"
                   THEN [exists |-> TRUE, status |-> "pending",
                         reward |-> IF c = "c1" THEN 250 ELSE 100, proofUrl |-> "",
                         submittedAt |-> 0]
                   ELSE NoWork]]
    /\ campaigns = [c \in CampaignIds |-> InitCampaign(1)]
    /\ adminRequests = [path \in ReqPaths |-> [r \in RequestIds |-> NoRequest]]
    /\ users = [u \in Users |-> InitUser(IF u = "adm" THEN "admin" ELSE "user")]
    /\ transactions = [u \in Users |-> [records |-> << >>, status |-> ""]]
    /\ pc = [p \in Procs |-> "idle"]
    /\ call = [p \in Procs |-> NoCall]
    /\ loc = [p \in Procs |-> NoLoc]
    /\ ret = [p \in Procs |-> NoRet]
    /\ pre = NoStore
    /\ hist = [NoHist EXCEPT !.expect = wallets]
    /\ nCalls = 0
    /\ InitDataCache

NextApprove == \E p \in Procs : approveWork_GetSecond(p) \/ ApproveStep(p)

SpecApprove == InitApprove /\ [][NextApprove]_vars

\* the number of approveWorkAndCredit calls for items of uid that returned true
RECURSIVE ApprovedCalls(_, _)
ApprovedCalls(uid, cs) ==
    IF cs = {} THEN 0
    ELSE LET c == CHOOSE x \in cs : TRUE
         IN  hist.approved[<<uid, c>>] + ApprovedCalls(uid, cs \ {c})

\* C39 as stated: after any interleaving of k approveWorkAndCredit calls that
\* returned true for distinct work items of one user, the profile's
\* approvedWorks has grown by k and its earnedMoney by the sum of the credited
\* rewards, the growth of the wallet's earnedBalance
C39_ProfileCountsEveryApproval ==
    (AllReturned /\ \A k \in WorkKeys : hist.approved[k] <= 1)
    => \A u \in Users :
         /\ users[u].approvedWorks = ApprovedCalls(u, CampaignIds)
         /\ users[u].earnedMoney = hist.credited[u]

\* C40 as stated: an approveWorkAndCredit that returns true has credited
\* earnedBalance with the reward stored in the work item, and a call whose
\* reward argument differs from the stored reward does not credit the wallet
C40_CreditIsStoredReward ==
    \A p \in Procs :
        (RanAlone(p) /\ call[p].op = "approveWorkAndCredit")
        => LET c == call[p]
               stored == pre.works[c.uid][c.cid].reward
               credit == wallets[c.uid].earnedBalance - pre.wallets[c.uid].earnedBalance
           IN  /\ ret[p].kind = "true" => credit = stored
               /\ c.amount # stored => credit = 0

=============================================================================
